---- MODULE Spec2Model ----
(***************************************************************************)
(* ShadowFeed: the x402 payment gate of the resource server (server.ts),   *)
(* its embedded facilitator (/verify, /settle, waitForTx, extractPayer)    *)
(* and the query ledger (db.ts: recordQuery).                              *)
(*                                                                         *)
(* A request is handled by one slot.  A slot advances by one action per    *)
(* stretch of handler code between two awaits, so two requests interleave  *)
(* exactly at the suspension points of the code: the broadcast, each       *)
(* status poll and the feed generation.                                    *)
(***************************************************************************)
EXTENDS Integers, Sequences, FiniteSets, TLC

VARIABLES
    NETWORK,      \* server.ts:48   process.env.NETWORK
    DEMO_MODE,    \* server.ts:433  process.env.DEMO_MODE === 'true'
    queries,      \* db.ts table queries, in insertion (id) order
    feed_stats,   \* db.ts table feed_stats: feed_id -> total_queries
    chain,        \* the ledger: transaction id -> tx_status
    slot,         \* the in-flight requests
    started,      \* number of requests received so far
    prev,         \* the last payer answer of the facilitator: [seen, hex, payer]
    wait,         \* the frames of the waitForTx calls measured in milliseconds
    finalizesAt,  \* when, after a run starts, the ledger turns its transaction final
    answers,      \* one request as answered by the embedded and the standalone facilitator
    registry,     \* the registry contract: maps, data-vars and STX balances
    receipt,      \* the last call of the registry contract and its response
    agent         \* the smart agent: its step, what it bought and what it spent

vars == <<NETWORK, DEMO_MODE, queries, feed_stats, chain, slot, started, prev,
          wait, finalizesAt, answers, registry, receipt, agent>>

---------------------------------------------------------------------------
(* Bounds                                                                  *)

\* concurrent requests in flight
MaxSlots == 2
\* requests received in one behaviour
MaxRequests == 2
\* status polls one waitForTx run makes before its timeout budget
\* (180000 ms, server.ts:129) has elapsed; the code allows up to 36
MaxPolls == 1

Slots == 1..MaxSlots

\* the two settle invocations whose polling is followed millisecond by
\* millisecond
Runs == {1, 2}

---------------------------------------------------------------------------
(* Configuration and values                                                *)

PROVIDER_ADDRESS == "SP_PROVIDER"
OTHER_ADDRESS == "SP_OTHER"

Feeds == {"whale-alerts", "btc-sentiment", "defi-scores"}

\* JavaScript null, as stored by `payer || null`, `txHash || null`
Null == "null"

\* the amounts of two routes exchanged
FeedAmountSwapped(feed) ==
    CASE feed = "whale-alerts" -> 3000
      [] feed = "btc-sentiment" -> 5000
      [] feed = "defi-scores" -> 10000

\* amount: STXtoMicroSTX(0.005 | 0.003 | 0.01)
FeedAmount(feed) ==
    CASE feed = "whale-alerts" -> 5000
      [] feed = "btc-sentiment" -> 3000
      [] feed = "defi-scores" -> 10000

\* the x402 network identifiers listed by /supported
NetworkId(net) == IF net = "mainnet" THEN "stacks:1" ELSE "stacks:2147483648"

NoRequirement == [amount |-> 0, payTo |-> "", network |-> ""]

\* the options object handed to paymentMiddleware for a feed
Requirement(feed, net) ==
    [amount |-> FeedAmount(feed), payTo |-> PROVIDER_ADDRESS, network |-> NetworkId(net)]

STACKS_API_TESTNET == "https://api.testnet.hiro.so"
STACKS_API_MAINNET == "https://api.hiro.so"

---------------------------------------------------------------------------
(* Signed transactions                                                     *)

\* 40 hex digits: the hash160 of the signer's public key
SIGNER_A1 == "a1a1a1a1a1a1a1a1a1a1a1a1a1a1a1a1a1a1a101"
SIGNER_A2 == "a1a1a1a1a1a1a1a1a1a1a1a1a1a1a1a1a1a1a102"
SIGNER_B == "b2b2b2b2b2b2b2b2b2b2b2b2b2b2b2b2b2b2b201"

\* A serialized transaction as it travels in paymentPayload.payload.transaction.
\*   decodable  deserializeTransaction accepts it
\*   id         the transaction identifier the ledger derives from it
\*   amount     payload.amount (0: the payload has no amount)
\*   recipient  payload.recipient
\*   signer     auth.spendingCondition.signer ("": absent)
\*   address    auth.spendingCondition.address ("": absent)
WireTx(id, amount, recipient, signer, address) ==
    [decodable |-> TRUE, id |-> id, amount |-> amount, recipient |-> recipient,
     signer |-> signer, address |-> address]

Garbage ==
    [decodable |-> FALSE, id |-> "", amount |-> 0, recipient |-> "",
     signer |-> "", address |-> ""]

deserializeTransaction(hex) ==
    [payload |-> [amount |-> hex.amount, recipient |-> hex.recipient],
     auth |-> [spendingCondition |-> [signer |-> hex.signer, address |-> hex.address]],
     txid |-> hex.id]

extractPayer(tx) ==
    LET sc == tx.auth.spendingCondition IN
    IF sc.signer # "" THEN "ST" \o SubSeq(sc.signer, 1, 38)
    ELSE IF sc.address # "" THEN sc.address
    ELSE "unknown"

---------------------------------------------------------------------------
(* Request bodies and responses                                            *)

\* The JSON body of POST /verify and POST /settle.
\*   hasPayload  paymentPayload is present
\*   hasTx       paymentPayload.payload.transaction (or .transaction) is present
\*   hex         that transaction
\*   proofNet    the network named by the payload (paymentPayload.accepted.network)
\*   hasReq      paymentRequirements is present
\*   reqd        paymentRequirements
\*   claimed     an identity the caller names itself by, outside the transaction
Body(hasPayload, hasTx, hex, proofNet, hasReq, reqd, claimed) ==
    [hasPayload |-> hasPayload, hasTx |-> hasTx, hex |-> hex, proofNet |-> proofNet,
     hasReq |-> hasReq, reqd |-> reqd, claimed |-> claimed]

NoBody == Body(FALSE, FALSE, Garbage, "", FALSE, NoRequirement, "")

\* One response shape for every endpoint; a field an endpoint does not send
\* keeps its NoResponse value.
\*   status    HTTP status
\*   kind      "challenge" | "released" | "denied" | "verify" | "settle" | "error"
\*   ok        isValid (verify) / success (settle)
\*   reason    errorReason / error
\*   payer     payer (verify, settle) / paid_by (release)
\*   tx        transaction (settle) / tx (release)
\*   feed      feed (release)
\*   requirement  the PaymentRequirement of a challenge
\*   data      TRUE iff the body carries the feed payload
NoResponse ==
    [status |-> 0, kind |-> "", ok |-> FALSE, reason |-> "", payer |-> "",
     tx |-> "", feed |-> "", requirement |-> NoRequirement, data |-> FALSE]

Respond(status, kind, ok, reason, payer, tx) ==
    [NoResponse EXCEPT !.status = status, !.kind = kind, !.ok = ok,
                       !.reason = reason, !.payer = payer, !.tx = tx]

\* `<=` written for `<`
AmountTooLowOrEqual(txAmount, requiredAmount) == txAmount <= requiredAmount

\* `txAmount < requiredAmount`
AmountTooLow(txAmount, requiredAmount) == txAmount < requiredAmount

\* /verify naming the payer after the identity the caller sends along, as the
\* demo routes do with x-agent-address
verifyTrustingCaller(body) ==
    IF ~body.hasPayload \/ ~body.hasReq
    THEN Respond(400, "verify", FALSE, "Missing paymentPayload or paymentRequirements", "", "")
    ELSE IF ~body.hasTx
    THEN Respond(400, "verify", FALSE, "No transaction found in payload", "", "")
    ELSE IF ~body.hex.decodable
    THEN Respond(400, "verify", FALSE, "deserialize error", "", "")
    ELSE LET tx == deserializeTransaction(body.hex) IN
         IF AmountTooLow(tx.payload.amount, body.reqd.amount)
         THEN Respond(200, "verify", FALSE, "Insufficient", "", "")
         ELSE Respond(200, "verify", TRUE, "",
                      IF body.claimed # "" THEN body.claimed ELSE extractPayer(tx), "")

\* POST /verify: the whole handler (it awaits nothing)
verify(body) ==
    IF ~body.hasPayload \/ ~body.hasReq
    THEN Respond(400, "verify", FALSE, "Missing paymentPayload or paymentRequirements", "", "")
    ELSE IF ~body.hasTx
    THEN Respond(400, "verify", FALSE, "No transaction found in payload", "", "")
    ELSE IF ~body.hex.decodable
    THEN Respond(400, "verify", FALSE, "deserialize error", "", "")
    ELSE LET tx == deserializeTransaction(body.hex) IN
         IF AmountTooLow(tx.payload.amount, body.reqd.amount)
         THEN Respond(200, "verify", FALSE, "Insufficient", "", "")
         ELSE Respond(200, "verify", TRUE, "", extractPayer(tx), "")

---------------------------------------------------------------------------
(* The answers of broadcastTransaction                                     *)

\* { txid }, { error, reason? }, or an exception
NoBroadcastResult == [threw |-> FALSE, txid |-> FALSE, error |-> "", reason |-> ""]
BroadcastAccepted == [NoBroadcastResult EXCEPT !.txid = TRUE]
BroadcastRejected(error, reason) ==
    [NoBroadcastResult EXCEPT !.error = error, !.reason = reason]
BroadcastThrew == [NoBroadcastResult EXCEPT !.threw = TRUE]

BroadcastResults ==
    {BroadcastAccepted,
     BroadcastRejected("transaction rejected", "ConflictingNonceInMempool"),
     BroadcastRejected("transaction rejected", ""),
     BroadcastThrew}

\* the reason of the ledger left out of the answer
broadcastErrorOnly(result) == result.error

\* `(result as any).reason || error`
broadcastError(result) ==
    IF result.reason # "" THEN result.reason ELSE result.error

---------------------------------------------------------------------------
(* Slots                                                                   *)

\* kind:  "" | "feed" | "verify" | "settle" | "walletbuy" | "demo"
\* pc:    "idle" | "settle" | "poll" | "generate" | "done"
\* body:  the facilitator request body (for a feed request: the decoded
\*        payment header with the feed's requirement)
\* feedId, txId, senderAddress: the body of POST /wallet/buy; feedId is also
\*        the feed of a paid or demo request
\* payer, transaction, apiUrl, polls: locals of the /settle handler
\* payment: req.payment, the settle result the middleware leaves for getPayment
\* verified, broadcast, finality, recorded: what happened in this request so
\*        far (verify answered valid; broadcastTransaction was called; what
\*        waitForTx observed; number of QueryRecords appended)
\* broadcasts, broadcastResult: the number of calls of broadcastTransaction in
\*        this request and what the last one came back with
\* overlapped: the request arrived while another one was suspended at an await
IdleSlot ==
    [kind |-> "", pc |-> "idle", body |-> NoBody,
     feedId |-> "", txId |-> "", senderAddress |-> "",
     payer |-> "", transaction |-> "", apiUrl |-> "", polls |-> 0,
     payment |-> NoResponse,
     verified |-> FALSE, broadcast |-> FALSE, finality |-> "", recorded |-> 0,
     broadcasts |-> 0, broadcastResult |-> NoBroadcastResult,
     overlapped |-> FALSE,
     resp |-> NoResponse]

\* the transaction identifier the ledger derives from a transaction
TxIdOf(amount, recipient, signer, address) ==
    "0x" \o ToString(amount) \o recipient \o signer \o address

Tx(amount, recipient, signer, address) ==
    WireTx(TxIdOf(amount, recipient, signer, address), amount, recipient, signer, address)

\* The transactions the gate is driven with: one paying the provider enough
\* for every feed, one paying somebody else 5000.
TX_PROVIDER == Tx(10000, PROVIDER_ADDRESS, SIGNER_A1, "")
TX_ELSEWHERE == Tx(5000, OTHER_ADDRESS, SIGNER_B, "")

GateHex == {TX_PROVIDER, TX_ELSEWHERE, Garbage}

\* the payment-signature header of a request to a paid endpoint
GateProofs ==
    {[hasPayload |-> FALSE, hasTx |-> FALSE, hex |-> Garbage, proofNet |-> ""]}
    \cup {[hasPayload |-> TRUE, hasTx |-> TRUE, hex |-> h, proofNet |-> NetworkId("testnet")] :
             h \in GateHex}

\* identities a caller can name itself by (x-agent-address, senderAddress)
ClaimedIds == {"", "SP_SPOOFED"}

---------------------------------------------------------------------------
(* The query ledger (db.ts)                                                *)

\* `value || null`
OrNull(value) == IF value = "" THEN Null ELSE value

\* a row that leaves the payer out
QueryRecordAnonymous(id, feedId, payer, txHash) ==
    [id |-> id, feed_id |-> feedId, payer |-> Null, tx_hash |-> OrNull(txHash)]

\* the row of `INSERT INTO queries (feed_id, payer, tx_hash, ...)`; id is the
\* AUTOINCREMENT key
QueryRecord(id, feedId, payer, txHash) ==
    [id |-> id, feed_id |-> feedId, payer |-> OrNull(payer), tx_hash |-> OrNull(txHash)]

\* INSERT OR REPLACE on the last id
recordQueryRowsReplacing(rows, feedId, payer, txHash) ==
    IF rows = <<>> THEN <<QueryRecord(1, feedId, payer, txHash)>>
    ELSE [rows EXCEPT ![Len(rows)] = QueryRecord(Len(rows), feedId, payer, txHash)]

\* recordQuery: the INSERT and the UPDATE of one db.transaction
recordQueryRows(rows, feedId, payer, txHash) ==
    Append(rows, QueryRecord(Len(rows) + 1, feedId, payer, txHash))

recordQueryStats(stats, feedId) ==
    [f \in DOMAIN stats |-> IF f = feedId THEN stats[f] + 1 ELSE stats[f]]

\* the statement of recordQuery that raises
FailPoints == {"insert", "update"}

\* the two statements run one after the other, outside db.transaction: what
\* the INSERT wrote stays when the UPDATE raises
recordQueryUnwrapped(rows, stats, feedId, payer, txHash, failAt) ==
    IF failAt = "insert" THEN [rows |-> rows, stats |-> stats, threw |-> TRUE]
    ELSE IF failAt = "update"
    THEN [rows |-> recordQueryRows(rows, feedId, payer, txHash), stats |-> stats,
          threw |-> TRUE]
    ELSE [rows |-> recordQueryRows(rows, feedId, payer, txHash),
          stats |-> recordQueryStats(stats, feedId), threw |-> FALSE]

\* recordQuery as a whole: db.transaction(() => { insertQuery.run(...);
\* updateStats.run(...) })() commits both statements or, when one raises,
\* rolls back and rethrows
recordQuery(rows, stats, feedId, payer, txHash, failAt) ==
    IF failAt \in FailPoints THEN [rows |-> rows, stats |-> stats, threw |-> TRUE]
    ELSE [rows |-> recordQueryRows(rows, feedId, payer, txHash),
          stats |-> recordQueryStats(stats, feedId), threw |-> FALSE]

\* `SELECT * FROM queries WHERE id = ?`: the row, or undefined
NoRow == [id |-> 0, feed_id |-> "", payer |-> Null, tx_hash |-> Null]

getQueryById(rows, id) ==
    IF \E k \in 1..Len(rows) : rows[k].id = id
    THEN rows[CHOOSE k \in 1..Len(rows) : rows[k].id = id]
    ELSE NoRow

\* another request is suspended at an await when request i arrives
Overlaps(i) ==
    \E j \in Slots \ {i} : slot[j].pc \in {"settle", "poll", "generate"}

\* A new request is taken by the first free slot (which slot handles a
\* request is immaterial), while the request budget lasts.
Accepts(i) ==
    /\ slot[i].pc = "idle"
    /\ \A j \in Slots : j < i => slot[j].pc # "idle"
    /\ started < MaxRequests

---------------------------------------------------------------------------
(* The access gate: paymentMiddleware in front of /feeds/*                 *)

Challenge(requirement) ==
    [NoResponse EXCEPT !.status = 402, !.kind = "challenge", !.requirement = requirement]

Denied(reason) ==
    [NoResponse EXCEPT !.status = 402, !.kind = "denied", !.reason = reason]

\* The middleware up to the point where it hands the proof to /settle:
\* no proof -> challenge; proof -> decode and verify; invalid -> denied.
paymentMiddleware(r) ==
    IF ~r.body.hasPayload
    THEN [r EXCEPT !.pc = "done", !.resp = Challenge(r.body.reqd)]
    ELSE LET v == verify(r.body) IN
         IF ~v.ok
         THEN [r EXCEPT !.pc = "done", !.resp = Denied(v.reason)]
         ELSE [r EXCEPT !.pc = "settle", !.verified = TRUE]

\* The middleware on the answer of /settle: success -> req.payment is set and
\* next() runs the route handler up to its first await; failure -> denied.
paymentSettled(r, answer) ==
    IF answer.ok
    THEN [r EXCEPT !.pc = "generate", !.payment = answer]
    ELSE [r EXCEPT !.pc = "done", !.resp = Denied(answer.reason)]

\* GET /feeds/<feed>: the request arrives and runs through the middleware
FeedRequest(i) ==
    /\ Accepts(i)
    /\ \E feed \in Feeds, p \in GateProofs :
          LET body == Body(p.hasPayload, p.hasTx, p.hex, p.proofNet, TRUE,
                           Requirement(feed, NETWORK), "")
              r == [IdleSlot EXCEPT !.kind = "feed", !.feedId = feed, !.body = body,
                                    !.overlapped = Overlaps(i)]
          IN  slot' = [slot EXCEPT ![i] = paymentMiddleware(r)]
    /\ started' = started + 1
    /\ UNCHANGED <<wait, finalizesAt, answers, registry, receipt, agent, NETWORK, DEMO_MODE, queries, feed_stats, chain, prev>>

\* the response of a paid route handler
Released(feed, payer, tx) ==
    [NoResponse EXCEPT !.status = 200, !.kind = "released", !.feed = feed,
                       !.payer = payer, !.tx = tx, !.data = TRUE]

\* The route handler after `await generate...()`: recordQuery, then res.json.
\* paid_by: payment?.payer || 'unknown'; tx: payment?.transaction || null
FeedRespond(i) ==
    LET r == slot[i] IN
    /\ r.kind = "feed"
    /\ r.pc = "generate"
    /\ queries' = recordQueryRows(queries, r.feedId, r.payment.payer, r.payment.tx)
    /\ feed_stats' = recordQueryStats(feed_stats, r.feedId)
    /\ slot' = [slot EXCEPT ![i] =
                  [r EXCEPT !.pc = "done", !.recorded = @ + 1,
                            !.resp = Released(r.feedId,
                                              IF r.payment.payer = "" THEN "unknown"
                                              ELSE r.payment.payer,
                                              OrNull(r.payment.tx))]]
    /\ UNCHANGED <<wait, finalizesAt, answers, registry, receipt, agent, NETWORK, DEMO_MODE, chain, started, prev>>

---------------------------------------------------------------------------
(* The embedded facilitator: POST /settle and waitForTx                    *)

SettleFailure(status, reason) == Respond(status, "settle", FALSE, reason, "", "")

\* res.json({ success: true, payer, transaction: txId, network: networkId })
SettleSuccess(payer, txId) == Respond(200, "settle", TRUE, "", payer, txId)

\* the answer of /settle reaches its caller: the middleware of a paid route,
\* or the remote caller of POST /settle
settleReturns(r, answer) ==
    IF r.kind = "feed" THEN paymentSettled(r, answer)
    ELSE [r EXCEPT !.pc = "done", !.resp = answer]

\* `paymentRequirements.network || 'stacks:2147483648'`, then the API to use
settleApiUrl(reqd) ==
    LET networkId == IF reqd.network = "" THEN "stacks:2147483648" ELSE reqd.network
    IN  IF networkId = "stacks:1" THEN STACKS_API_MAINNET ELSE STACKS_API_TESTNET

\* POST /settle from its first line to the answer of broadcastTransaction
SettleBroadcast(i) ==
    LET r == slot[i]
        b == r.body
    IN
    /\ r.pc = "settle"
    /\ IF ~b.hasPayload \/ ~b.hasReq
       THEN /\ slot' = [slot EXCEPT ![i] =
                          settleReturns(r, SettleFailure(400, "Missing payload or requirements"))]
            /\ chain' = chain
       ELSE IF ~b.hasTx
       THEN /\ slot' = [slot EXCEPT ![i] =
                          settleReturns(r, SettleFailure(400, "No transaction in payload"))]
            /\ chain' = chain
       ELSE IF ~b.hex.decodable
       THEN /\ slot' = [slot EXCEPT ![i] =
                          settleReturns(r, SettleFailure(500, "deserialize error"))]
            /\ chain' = chain
       ELSE LET tx == deserializeTransaction(b.hex)
            IN  \E result \in BroadcastResults :
                   LET sent == [r EXCEPT !.payer = extractPayer(tx),
                                         !.apiUrl = settleApiUrl(b.reqd),
                                         !.broadcast = TRUE,
                                         !.broadcasts = @ + 1,
                                         !.broadcastResult = result]
                   IN
                   IF result.threw
                   THEN /\ slot' = [slot EXCEPT ![i] =
                                      settleReturns(sent, SettleFailure(500, "network error"))]
                        /\ chain' = chain
                   ELSE IF result.error # ""
                   THEN /\ slot' = [slot EXCEPT ![i] =
                                      settleReturns(sent,
                                          SettleFailure(400, broadcastError(result)))]
                        /\ chain' = chain
                   ELSE /\ slot' = [slot EXCEPT ![i] =
                                      [sent EXCEPT !.pc = "poll", !.transaction = tx.txid]]
                        /\ chain' = [chain EXCEPT ![tx.txid] =
                                        IF @ = "none" THEN "pending" ELSE @]
    /\ UNCHANGED <<wait, finalizesAt, answers, registry, receipt, agent, NETWORK, DEMO_MODE, queries, feed_stats, started, prev>>

\* `status?.startsWith('abort')`
startsWithAbort(status) == Len(status) >= 5 /\ SubSeq(status, 1, 5) = "abort"

\* /settle answering success only for a confirmed transaction
settledWhenConfirmed(r, finality) ==
    settleReturns([r EXCEPT !.finality = finality],
                  IF finality = "confirmed" THEN SettleSuccess(r.payer, r.transaction)
                  ELSE SettleFailure(400, "not confirmed"))

\* waitForTx has returned: /settle answers success whatever it returned
settled(r, finality) ==
    settleReturns([r EXCEPT !.finality = finality], SettleSuccess(r.payer, r.transaction))

\* One turn of the loop of waitForTx: the loop test, the GET of the status,
\* the two returns, and the sleep that ends the turn.
waitForTx(i) ==
    LET r == slot[i] IN
    /\ r.pc = "poll"
    /\ IF r.polls >= MaxPolls
       THEN slot' = [slot EXCEPT ![i] = settled(r, "pending")]
       ELSE \E status \in {chain[r.transaction], "throw"} :
               IF status = "success"
               THEN slot' = [slot EXCEPT ![i] = settled(r, "confirmed")]
               ELSE IF status # "throw" /\ startsWithAbort(status)
               THEN slot' = [slot EXCEPT ![i] = settled(r, "aborted")]
               ELSE slot' = [slot EXCEPT ![i] = [r EXCEPT !.polls = @ + 1]]
    /\ UNCHANGED <<wait, finalizesAt, answers, registry, receipt, agent, NETWORK, DEMO_MODE, queries, feed_stats, chain, started, prev>>

\* the ledger finalizes a transaction of its mempool
LedgerFinalizes ==
    /\ \E id \in DOMAIN chain, status \in {"success", "abort_by_response"} :
          /\ chain[id] = "pending"
          /\ chain' = [chain EXCEPT ![id] = status]
    /\ UNCHANGED <<wait, finalizesAt, answers, registry, receipt, agent, NETWORK, DEMO_MODE, queries, feed_stats, slot, started, prev>>

---------------------------------------------------------------------------
(* Direct calls of the facilitator endpoints of the server                 *)

\* bodies a remote caller posts to /verify and /settle of the server
DirectBodies ==
    {Body(TRUE, TRUE, TX_PROVIDER, NetworkId("testnet"), TRUE,
          Requirement("whale-alerts", "testnet"), ""),
     Body(TRUE, TRUE, TX_ELSEWHERE, NetworkId("testnet"), TRUE,
          Requirement("defi-scores", "mainnet"), ""),
     Body(TRUE, TRUE, Garbage, NetworkId("testnet"), TRUE,
          Requirement("whale-alerts", "testnet"), ""),
     Body(TRUE, FALSE, Garbage, NetworkId("testnet"), TRUE,
          Requirement("whale-alerts", "testnet"), "")}

\* /verify keeping a QueryRecord of the payer it named
VerifyRequestRecording(i) ==
    /\ Accepts(i)
    /\ \E body \in DirectBodies :
          /\ slot' = [slot EXCEPT ![i] =
                        [IdleSlot EXCEPT !.kind = "verify", !.body = body,
                                         !.pc = "done", !.resp = verify(body)]]
          /\ queries' = IF verify(body).ok
                        THEN recordQueryRows(queries, "whale-alerts", verify(body).payer, "")
                        ELSE queries
    /\ started' = started + 1
    /\ UNCHANGED <<wait, finalizesAt, answers, registry, receipt, agent, NETWORK, DEMO_MODE, feed_stats, chain, prev>>

\* POST /verify
VerifyRequest(i) ==
    /\ Accepts(i)
    /\ \E body \in DirectBodies :
          slot' = [slot EXCEPT ![i] =
                     [IdleSlot EXCEPT !.kind = "verify", !.body = body,
                                      !.pc = "done", !.resp = verify(body)]]
    /\ started' = started + 1
    /\ UNCHANGED <<wait, finalizesAt, answers, registry, receipt, agent, NETWORK, DEMO_MODE, queries, feed_stats, chain, prev>>

\* POST /settle arrives
SettleRequest(i) ==
    /\ Accepts(i)
    /\ \E body \in DirectBodies :
          slot' = [slot EXCEPT ![i] =
                     [IdleSlot EXCEPT !.kind = "settle", !.body = body, !.pc = "settle"]]
    /\ started' = started + 1
    /\ UNCHANGED <<wait, finalizesAt, answers, registry, receipt, agent, NETWORK, DEMO_MODE, queries, feed_stats, chain, prev>>

---------------------------------------------------------------------------
(* POST /wallet/buy                                                        *)

\* the list with a feed nobody generates
validFeedsAndMore == {"whale-alerts", "btc-sentiment", "defi-scores", "nft-floor"}

validFeeds == {"whale-alerts", "btc-sentiment", "defi-scores"}

WalletFeedIds == validFeeds \cup {"", "nft-floor"}
\* txId of the body: any string the caller sends
WalletTxIds == {"", TX_PROVIDER.id, "demo_forged"}

WalletError(status, reason) ==
    [NoResponse EXCEPT !.status = status, !.kind = "error", !.reason = reason]

\* the handler up to `await generate...()`
WalletBuyRequest(i) ==
    /\ Accepts(i)
    /\ \E feedId \in WalletFeedIds, txId \in WalletTxIds, senderAddress \in ClaimedIds :
          LET r == [IdleSlot EXCEPT !.kind = "walletbuy", !.overlapped = Overlaps(i),
                                    !.feedId = feedId, !.txId = txId,
                                    !.senderAddress = senderAddress]
          IN  slot' = [slot EXCEPT ![i] =
                IF feedId = "" \/ txId = "" \/ senderAddress = ""
                THEN [r EXCEPT !.pc = "done",
                               !.resp = WalletError(400, "Missing feedId, txId, or senderAddress")]
                ELSE IF feedId \notin validFeeds
                THEN [r EXCEPT !.pc = "done", !.resp = WalletError(400, "Invalid feed ID")]
                ELSE [r EXCEPT !.pc = "generate"]]
    /\ started' = started + 1
    /\ UNCHANGED <<wait, finalizesAt, answers, registry, receipt, agent, NETWORK, DEMO_MODE, queries, feed_stats, chain, prev>>

\* after the feed is generated: recordQuery(feedId, senderAddress, txId, ...)
\* and res.json({ feed, paid_by: senderAddress, tx: txId, data, ... })
WalletBuyRespond(i) ==
    LET r == slot[i] IN
    /\ r.kind = "walletbuy"
    /\ r.pc = "generate"
    /\ queries' = recordQueryRows(queries, r.feedId, r.senderAddress, r.txId)
    /\ feed_stats' = recordQueryStats(feed_stats, r.feedId)
    /\ slot' = [slot EXCEPT ![i] =
                  [r EXCEPT !.pc = "done", !.recorded = @ + 1,
                            !.resp = Released(r.feedId, r.senderAddress, r.txId)]]
    /\ UNCHANGED <<wait, finalizesAt, answers, registry, receipt, agent, NETWORK, DEMO_MODE, chain, started, prev>>

---------------------------------------------------------------------------
(* GET /demo/feeds/<feed>, registered only when DEMO_MODE                  *)

\* `demo_${Math.random().toString(36).slice(2, 14)}`
DemoTxIds == {"demo_k3x9q2m4p0ab"}

\* `tx_hash?.startsWith('demo_')`
isDemo(txHash) == Len(txHash) >= 5 /\ SubSeq(txHash, 1, 5) = "demo_"

DemoRequest(i) ==
    /\ DEMO_MODE
    /\ Accepts(i)
    /\ \E feed \in Feeds, header \in ClaimedIds :
          slot' = [slot EXCEPT ![i] =
                     [IdleSlot EXCEPT !.kind = "demo", !.feedId = feed, !.pc = "generate",
                                      !.senderAddress =
                                          IF header = "" THEN "demo-agent" ELSE header]]
    /\ started' = started + 1
    /\ UNCHANGED <<wait, finalizesAt, answers, registry, receipt, agent, NETWORK, DEMO_MODE, queries, feed_stats, chain, prev>>

DemoRespond(i) ==
    LET r == slot[i] IN
    /\ r.kind = "demo"
    /\ r.pc = "generate"
    /\ \E txHash \in DemoTxIds :
          queries' = recordQueryRows(queries, r.feedId, r.senderAddress, txHash)
    /\ feed_stats' = recordQueryStats(feed_stats, r.feedId)
    /\ slot' = [slot EXCEPT ![i] =
                  [r EXCEPT !.pc = "done", !.recorded = @ + 1,
                            !.resp = Released(r.feedId, r.senderAddress, "")]]
    /\ UNCHANGED <<wait, finalizesAt, answers, registry, receipt, agent, NETWORK, DEMO_MODE, chain, started, prev>>

---------------------------------------------------------------------------
(* waitForTx on the clock                                                  *)
(*                                                                         *)
(* The same function, followed millisecond by millisecond for the settle   *)
(* invocations of Runs.  Each run is measured on its own clock: elapsed is *)
(* Date.now() - start, and finalizesAt says how long after the start of a  *)
(* run the ledger reports the transaction final.                           *)

\* `setTimeout(r, 5000)`
POLL_INTERVAL == 5000
\* `axios.get(..., { timeout: 5000 })`
GET_TIMEOUT == 5000

\* timeoutMs (the call in /settle passes 180000, a multiple of the interval
\* like 5000 and 10000)
Timeouts == {5000, 7500, 10000}
\* the time one GET takes; axios gives up on a GET of GET_TIMEOUT ms
Latencies == {0, 2500, 5000}

NotFinal == [final |-> FALSE, at |-> 0, status |-> "pending"]
Finalities ==
    {NotFinal}
    \cup [final : {TRUE}, at : {2500, 5000, 7500, 10000, 12500},
          status : {"success", "abort_by_post_condition"}]

\* the frame of one waitForTx call
\*   pc        "idle" | "get" | "sleep" | "returned"
\*   timeoutMs the parameter
\*   elapsed   Date.now() - start
\*   result    the boolean returned
\*   last      what the last GET came back with: a tx_status or "throw"
\*   failed    some GET of the run threw
IdleWait ==
    [pc |-> "idle", timeoutMs |-> 0, elapsed |-> 0, result |-> FALSE, last |-> "",
     failed |-> FALSE]

\* tx_status as the ledger reports it t ms after the start of a run
ledgerStatus(t) ==
    IF finalizesAt.final /\ t >= finalizesAt.at THEN finalizesAt.status ELSE "pending"

\* What a GET sent `elapsed` ms into the run and taking `latency` ms comes back
\* with: the status at some moment of the exchange, or an exception (always
\* one when axios gives up).
GetResults(elapsed, latency) ==
    IF latency >= GET_TIMEOUT THEN {"throw"}
    ELSE {ledgerStatus(elapsed), ledgerStatus(elapsed + latency), "throw"}

\* a failed GET taken for the end of the run
pollOutcomeGivingUp(status) ==
    IF status = "success" THEN "true"
    ELSE IF status = "throw" \/ startsWithAbort(status) THEN "false"
    ELSE "sleep"

\* the body of the try block and its empty catch
pollOutcome(status) ==
    IF status = "success" THEN "true"
    ELSE IF status # "throw" /\ startsWithAbort(status) THEN "false"
    ELSE "sleep"

\* the timer that never lets time pass
afterSleepStalled(elapsed) == elapsed

\* `await new Promise(r => setTimeout(r, 5000))`
afterSleep(elapsed) == elapsed + POLL_INTERVAL

\* `while (Date.now() - start < timeoutMs)`
withinBudget(frame) == frame.elapsed < frame.timeoutMs

\* waitForTx returns and /settle answers
waitReturns(i, frame, result, finality) ==
    /\ wait' = [wait EXCEPT ![i] = [frame EXCEPT !.pc = "returned", !.result = result]]
    /\ slot' = [slot EXCEPT ![i] = settled(slot[i], finality)]

\* POST /settle arrives for a run
SettleRunRequest(i) ==
    /\ slot[i].pc = "idle"
    /\ wait[i].pc = "idle"
    /\ \E body \in {d \in DirectBodies : d.hex # TX_PROVIDER} :
          slot' = [slot EXCEPT ![i] =
                     [IdleSlot EXCEPT !.kind = "settle", !.body = body, !.pc = "settle"]]
    /\ UNCHANGED <<wait, finalizesAt, answers, registry, receipt, agent, NETWORK, DEMO_MODE, queries, feed_stats, chain,
                   started, prev>>

\* the call: `start = Date.now()`, the first loop test, the first GET is sent
waitForTxStart(i) ==
    /\ i \in Runs
    /\ slot[i].pc = "poll"
    /\ wait[i].pc = "idle"
    /\ \E timeoutMs \in Timeouts :
          LET frame == [IdleWait EXCEPT !.timeoutMs = timeoutMs] IN
          IF withinBudget(frame)
          THEN /\ wait' = [wait EXCEPT ![i] = [frame EXCEPT !.pc = "get"]]
               /\ slot' = slot
          ELSE waitReturns(i, frame, FALSE, "pending")
    /\ UNCHANGED <<finalizesAt, answers, registry, receipt, agent, NETWORK, DEMO_MODE, queries, feed_stats, chain,
                   started, prev>>

\* the GET comes back (or throws): the two returns, or the sleep starts
waitForTxGet(i) ==
    /\ i \in Runs
    /\ wait[i].pc = "get"
    /\ \E latency \in Latencies :
       \E status \in GetResults(wait[i].elapsed, latency) :
          LET frame == [wait[i] EXCEPT !.elapsed = @ + latency, !.last = status,
                                       !.failed = @ \/ status = "throw"]
              outcome == pollOutcome(status)
          IN  IF outcome = "true" THEN waitReturns(i, frame, TRUE, "confirmed")
              ELSE IF outcome = "false" THEN waitReturns(i, frame, FALSE, "aborted")
              ELSE /\ wait' = [wait EXCEPT ![i] = [frame EXCEPT !.pc = "sleep"]]
                   /\ slot' = slot
    /\ UNCHANGED <<finalizesAt, answers, registry, receipt, agent, NETWORK, DEMO_MODE, queries, feed_stats, chain,
                   started, prev>>

\* the sleep is over: the loop test, then the next GET is sent or the loop ends
waitForTxSleep(i) ==
    /\ i \in Runs
    /\ wait[i].pc = "sleep"
    /\ LET frame == [wait[i] EXCEPT !.elapsed = afterSleep(@)] IN
       IF withinBudget(frame)
       THEN /\ wait' = [wait EXCEPT ![i] = [frame EXCEPT !.pc = "get"]]
            /\ slot' = slot
       ELSE waitReturns(i, frame, FALSE, "pending")
    /\ UNCHANGED <<finalizesAt, answers, registry, receipt, agent, NETWORK, DEMO_MODE, queries, feed_stats, chain,
                   started, prev>>

---------------------------------------------------------------------------
(* The registry contract: shadowfeed-registry.clar ("v1") and              *)
(* shadowfeed-registry-v2.clar ("v2").  One action per public function; a  *)
(* function is an operator from the contract state, tx-sender and the      *)
(* arguments to the new state and the response.                            *)

Versions == {"v1", "v2"}

CONTRACT_OWNER == "SP_DEPLOYER"
ALICE == "SP_ALICE"
\* (as-contract tx-sender)
CONTRACT == "SP_DEPLOYER.shadowfeed-registry"
Principals == {CONTRACT_OWNER, ALICE}

ERR_NOT_AUTHORIZED == 100
ERR_ALREADY_REGISTERED == 101
ERR_NOT_REGISTERED == 102
ERR_INSUFFICIENT_STAKE == 103
ERR_FEED_EXISTS == 104
ERR_FEED_NOT_FOUND == 105
ERR_INVALID_PRICE == 106
ERR_SLASH_TOO_HIGH == 107

MIN_STAKE == 50000000
PROTOCOL_FEE_BPS == 500
MAX_SLASH_BPS == 5000

\* The largest uint, 2^128 - 1, written as the largest number the checker
\* holds.  Every other number of the model is far below both, so a product
\* leaves the uint range exactly when one factor is U128_MAX and the other
\* exceeds 1.
U128_MAX == 2147483647

mulOverflows(a, b) == (a = U128_MAX /\ b > 1) \/ (b = U128_MAX /\ a > 1)

\* (+ a b) leaves the uint range: the transaction ends with a runtime error
addOverflows(a, b) == a > U128_MAX - b

\* (/ (* a b) d) for a product inside the uint range, computed without
\* forming a * b: with a = q * d + r it is q * b + (r * b) / d
mulDiv(a, b, d) == (a \div d) * b + ((a % d) * b) \div d

\* responses: (ok ...), (err uN), or a runtime error that aborts the call
\*   a, b   the numbers of an ok tuple: slashed / remaining-stake,
\*          provider-earned / protocol-fee, or the amount withdrawn
Ok(a, b) == [kind |-> "ok", code |-> 0, a |-> a, b |-> b]
Err(code) == [kind |-> "err", code |-> code, a |-> 0, b |-> 0]
Abort == [kind |-> "abort", code |-> 0, a |-> 0, b |-> 0]

NoProvider ==
    [some |-> FALSE, stake |-> 0, total_queries |-> 0, total_earned |-> 0,
     reputation_score |-> 0, registered_at |-> 0, is_active |-> FALSE]

NoFeed ==
    [some |-> FALSE, price_microstx |-> 0, description |-> "", category |-> "",
     total_queries |-> 0, is_active |-> FALSE]

RegistryFeedIds == {"whale-alerts", "btc-sentiment"}

\* the contract as deployed: empty maps, zero data-vars
Deployed(version, balance) ==
    [version |-> version,
     providers |-> [a \in Principals |-> NoProvider],
     feeds |-> [k \in Principals \X RegistryFeedIds |-> NoFeed],
     protocol_treasury |-> 0,
     total_providers |-> 0,
     total_feeds |-> 0,
     balance |-> balance]

\* the outcome of a public function: the state it leaves and its response;
\* an err or an abort rolls every change back
Commit(reg, resp) == [reg |-> reg, resp |-> resp]
Fail(reg, resp) == [reg |-> reg, resp |-> resp]

\* stx-transfer?: (err u1) balance too low, (err u2) sender is recipient,
\* (err u3) amount is zero
stx_transfer(balance, amount, sender, recipient) ==
    IF amount = 0 THEN [err |-> 3, balance |-> balance]
    ELSE IF sender = recipient THEN [err |-> 2, balance |-> balance]
    ELSE IF balance[sender] < amount THEN [err |-> 1, balance |-> balance]
    ELSE [err |-> 0,
          balance |-> [balance EXCEPT ![sender] = @ - amount, ![recipient] = @ + amount]]

\* register-provider accepting any stake above zero
register_provider_any_stake(reg, sender, stake_amount, height) ==
    IF ~(stake_amount > 0) THEN Fail(reg, Err(ERR_INSUFFICIENT_STAKE))
    ELSE IF reg.providers[sender].some THEN Fail(reg, Err(ERR_ALREADY_REGISTERED))
    ELSE LET t == stx_transfer(reg.balance, stake_amount, sender, CONTRACT) IN
         IF t.err # 0 THEN Fail(reg, Err(t.err))
         ELSE Commit([reg EXCEPT
                         !.balance = t.balance,
                         !.providers[sender] =
                             [some |-> TRUE, stake |-> stake_amount, total_queries |-> 0,
                              total_earned |-> 0, reputation_score |-> 50,
                              registered_at |-> height, is_active |-> TRUE],
                         !.total_providers = @ + 1],
                     Ok(0, 0))

register_provider(reg, sender, stake_amount, height) ==
    IF ~(stake_amount >= MIN_STAKE) THEN Fail(reg, Err(ERR_INSUFFICIENT_STAKE))
    ELSE IF reg.providers[sender].some THEN Fail(reg, Err(ERR_ALREADY_REGISTERED))
    ELSE LET t == stx_transfer(reg.balance, stake_amount, sender, CONTRACT) IN
         IF t.err # 0 THEN Fail(reg, Err(t.err))
         ELSE Commit([reg EXCEPT
                         !.balance = t.balance,
                         !.providers[sender] =
                             [some |-> TRUE, stake |-> stake_amount, total_queries |-> 0,
                              total_earned |-> 0, reputation_score |-> 50,
                              registered_at |-> height, is_active |-> TRUE],
                         !.total_providers = @ + 1],
                     Ok(0, 0))

\* add-stake writing is-active: true with the new stake
add_stake_reactivating(reg, sender, amount) ==
    IF ~reg.providers[sender].some THEN Fail(reg, Err(ERR_NOT_REGISTERED))
    ELSE LET t == stx_transfer(reg.balance, amount, sender, CONTRACT) IN
         IF t.err # 0 THEN Fail(reg, Err(t.err))
         ELSE Commit([reg EXCEPT !.balance = t.balance,
                                 !.providers[sender].stake = @ + amount,
                                 !.providers[sender].is_active = TRUE],
                     Ok(0, 0))

\* v1 only
add_stake(reg, sender, amount) ==
    IF ~reg.providers[sender].some THEN Fail(reg, Err(ERR_NOT_REGISTERED))
    ELSE LET t == stx_transfer(reg.balance, amount, sender, CONTRACT) IN
         IF t.err # 0 THEN Fail(reg, Err(t.err))
         ELSE Commit([reg EXCEPT !.balance = t.balance,
                                 !.providers[sender].stake = @ + amount],
                     Ok(0, 0))

\* register-feed writing over a feed that exists
register_feed_overwriting(reg, sender, feed_id, price_microstx, description, category) ==
    IF ~reg.providers[sender].some THEN Fail(reg, Err(ERR_NOT_REGISTERED))
    ELSE IF ~(price_microstx > 0) THEN Fail(reg, Err(ERR_INVALID_PRICE))
    ELSE Commit([reg EXCEPT
                    !.feeds[<<sender, feed_id>>] =
                        [some |-> TRUE, price_microstx |-> price_microstx,
                         description |-> description, category |-> category,
                         total_queries |-> 0, is_active |-> TRUE],
                    !.total_feeds = @ + 1],
                Ok(0, 0))

register_feed(reg, sender, feed_id, price_microstx, description, category) ==
    IF ~reg.providers[sender].some THEN Fail(reg, Err(ERR_NOT_REGISTERED))
    ELSE IF ~(price_microstx > 0) THEN Fail(reg, Err(ERR_INVALID_PRICE))
    ELSE IF reg.feeds[<<sender, feed_id>>].some THEN Fail(reg, Err(ERR_FEED_EXISTS))
    ELSE Commit([reg EXCEPT
                    !.feeds[<<sender, feed_id>>] =
                        [some |-> TRUE, price_microstx |-> price_microstx,
                         description |-> description, category |-> category,
                         total_queries |-> 0, is_active |-> TRUE],
                    !.total_feeds = @ + 1],
                Ok(0, 0))

\* record-query of shadowfeed-registry.clar
record_query_v1(reg, sender, feed_id, payment_amount) ==
    IF ~reg.providers[sender].some THEN Fail(reg, Err(ERR_NOT_REGISTERED))
    ELSE IF ~reg.feeds[<<sender, feed_id>>].some THEN Fail(reg, Err(ERR_FEED_NOT_FOUND))
    ELSE IF mulOverflows(payment_amount, PROTOCOL_FEE_BPS) THEN Fail(reg, Abort)
    ELSE LET protocol_fee == mulDiv(payment_amount, PROTOCOL_FEE_BPS, 10000)
             provider_earning == payment_amount - protocol_fee
         IN  IF \/ addOverflows(reg.providers[sender].total_earned, provider_earning)
                \/ addOverflows(reg.protocol_treasury, protocol_fee)
             THEN Fail(reg, Abort)
             ELSE
             Commit([reg EXCEPT
                        !.providers[sender].total_queries = @ + 1,
                        !.providers[sender].total_earned = @ + provider_earning,
                        !.feeds[<<sender, feed_id>>].total_queries = @ + 1,
                        !.protocol_treasury = @ + protocol_fee],
                    Ok(provider_earning, protocol_fee))

\* record-query counting the query for the provider but not for the feed
record_query_v2_provider_only(reg, sender, feed_id, payment_amount) ==
    IF ~reg.providers[sender].some THEN Fail(reg, Err(ERR_NOT_REGISTERED))
    ELSE IF ~reg.feeds[<<sender, feed_id>>].some THEN Fail(reg, Err(ERR_FEED_NOT_FOUND))
    ELSE IF addOverflows(reg.providers[sender].total_earned, payment_amount)
    THEN Fail(reg, Abort)
    ELSE Commit([reg EXCEPT
                    !.providers[sender].total_queries = @ + 1,
                    !.providers[sender].total_earned = @ + payment_amount],
                Ok(0, 0))

\* record-query of shadowfeed-registry-v2.clar: (ok true), no fee
record_query_v2(reg, sender, feed_id, payment_amount) ==
    IF ~reg.providers[sender].some THEN Fail(reg, Err(ERR_NOT_REGISTERED))
    ELSE IF ~reg.feeds[<<sender, feed_id>>].some THEN Fail(reg, Err(ERR_FEED_NOT_FOUND))
    ELSE IF addOverflows(reg.providers[sender].total_earned, payment_amount)
    THEN Fail(reg, Abort)
    ELSE Commit([reg EXCEPT
                    !.providers[sender].total_queries = @ + 1,
                    !.providers[sender].total_earned = @ + payment_amount,
                    !.feeds[<<sender, feed_id>>].total_queries = @ + 1],
                Ok(0, 0))

\* the limit of one slash raised to the whole stake
slashAllowedUpToAll(slash_bps) == slash_bps <= 10000

\* (<= slash-bps MAX_SLASH_BPS)
slashAllowed(slash_bps) == slash_bps <= MAX_SLASH_BPS

\* v1 only.  The let computes slash-amount before the two asserts.
slash_provider(reg, sender, provider_address, slash_bps) ==
    LET provider == reg.providers[provider_address] IN
    IF ~provider.some THEN Fail(reg, Err(ERR_NOT_REGISTERED))
    ELSE IF mulOverflows(provider.stake, slash_bps) THEN Fail(reg, Abort)
    ELSE LET slash_amount == mulDiv(provider.stake, slash_bps, 10000) IN
         IF sender # CONTRACT_OWNER THEN Fail(reg, Err(ERR_NOT_AUTHORIZED))
         ELSE IF ~slashAllowed(slash_bps) THEN Fail(reg, Err(ERR_SLASH_TOO_HIGH))
         ELSE Commit([reg EXCEPT
                         !.providers[provider_address].stake = @ - slash_amount,
                         !.providers[provider_address].reputation_score =
                             IF @ > 10 THEN @ - 10 ELSE 0,
                         !.protocol_treasury = @ + slash_amount],
                     Ok(slash_amount, provider.stake - slash_amount))

\* deactivate-provider open to every caller
deactivate_provider_by_anyone(reg, sender, provider_address) ==
    IF ~reg.providers[provider_address].some THEN Fail(reg, Err(ERR_NOT_REGISTERED))
    ELSE Commit([reg EXCEPT !.providers[provider_address].is_active = FALSE], Ok(0, 0))

deactivate_provider(reg, sender, provider_address) ==
    IF ~reg.providers[provider_address].some THEN Fail(reg, Err(ERR_NOT_REGISTERED))
    ELSE IF sender # CONTRACT_OWNER THEN Fail(reg, Err(ERR_NOT_AUTHORIZED))
    ELSE Commit([reg EXCEPT !.providers[provider_address].is_active = FALSE], Ok(0, 0))

\* v1 only
withdraw_treasury(reg, sender, amount, recipient) ==
    IF sender # CONTRACT_OWNER THEN Fail(reg, Err(ERR_NOT_AUTHORIZED))
    ELSE IF ~(amount <= reg.protocol_treasury) THEN Fail(reg, Err(ERR_INSUFFICIENT_STAKE))
    ELSE LET t == stx_transfer(reg.balance, amount, CONTRACT, recipient) IN
         IF t.err # 0 THEN Fail(reg, Err(t.err))
         ELSE Commit([reg EXCEPT !.balance = t.balance, !.protocol_treasury = @ - amount],
                     Ok(amount, 0))

\* calls of the contract in one behaviour
MaxCalls == 3

\* the last call: its number, function, tx-sender, arguments and response
\*   target   provider-address / recipient
\*   amount   stake-amount / amount / price-microstx / payment-amount / slash-bps
NoReceipt ==
    [n |-> 0, fn |-> "", sender |-> "", target |-> "", feed_id |-> "", amount |-> 0,
     text |-> "", resp |-> Ok(0, 0)]

StakeAmounts == {MIN_STAKE - 1, MIN_STAKE, 70000001}
AddAmounts == {1000000}
FeedOffers ==
    {[price |-> 0, description |-> "free"],
     [price |-> 5000, description |-> "whale moves"],
     [price |-> 3000, description |-> "whale moves, cheaper"]}
PaymentAmounts == {19, 5010, 20000, U128_MAX}
SlashBps == {0, 3333, 5000, 5001, U128_MAX}
WithdrawAmounts == {0, 1000, 200000000}

\* STX held before the contract is deployed
InitialBalance ==
    [h \in Principals \cup {CONTRACT} |->
        IF h = ALICE THEN 150000000 ELSE IF h = CONTRACT_OWNER THEN 60000000 ELSE 0]

\* ALICE registered with MIN_STAKE and slashed by 0 bps until her reputation
\* is `reputation` (v1: five slashes take it from 50 to 0)
Slashed(reputation) ==
    LET reg == register_provider(Deployed("v1", InitialBalance), ALICE, MIN_STAKE, 1).reg
    IN  [reg EXCEPT !.providers[ALICE].reputation_score = reputation]

\* ALICE registered with MIN_STAKE and her two feeds registered
Listed(version) ==
    LET a == register_provider(Deployed(version, InitialBalance), ALICE, MIN_STAKE, 1).reg
        b == register_feed(a, ALICE, "whale-alerts", 5000, "whale moves", "onchain").reg
    IN  register_feed(b, ALICE, "btc-sentiment", 3000, "sentiment", "social").reg

Called(fn, sender, target, feed_id, amount, text, out) ==
    /\ receipt.n < MaxCalls
    /\ registry' = out.reg
    /\ receipt' = [n |-> receipt.n + 1, fn |-> fn, sender |-> sender, target |-> target,
                   feed_id |-> feed_id, amount |-> amount, text |-> text,
                   resp |-> out.resp]
    /\ UNCHANGED <<wait, finalizesAt, answers, agent, NETWORK, DEMO_MODE, queries, feed_stats,
                   chain, slot, started, prev>>

RegisterProvider ==
    \E sender \in Principals, stake_amount \in StakeAmounts :
        Called("register-provider", sender, "", "", stake_amount, "",
               register_provider(registry, sender, stake_amount, receipt.n + 1))

AddStake ==
    /\ registry.version = "v1"
    /\ \E sender \in Principals, amount \in AddAmounts :
          Called("add-stake", sender, "", "", amount, "",
                 add_stake(registry, sender, amount))

RegisterFeed ==
    \E sender \in Principals, feed_id \in RegistryFeedIds, offer \in FeedOffers :
        Called("register-feed", sender, "", feed_id, offer.price, offer.description,
               register_feed(registry, sender, feed_id, offer.price, offer.description,
                             "onchain"))

RecordQuery ==
    \E sender \in Principals, feed_id \in RegistryFeedIds, payment_amount \in PaymentAmounts :
        Called("record-query", sender, "", feed_id, payment_amount, "",
               IF registry.version = "v1"
               THEN record_query_v1(registry, sender, feed_id, payment_amount)
               ELSE record_query_v2(registry, sender, feed_id, payment_amount))

SlashProvider ==
    /\ registry.version = "v1"
    /\ \E sender \in Principals, provider_address \in Principals, slash_bps \in SlashBps :
          Called("slash-provider", sender, provider_address, "", slash_bps, "",
                 slash_provider(registry, sender, provider_address, slash_bps))

DeactivateProvider ==
    \E sender \in Principals, provider_address \in Principals :
        Called("deactivate-provider", sender, provider_address, "", 0, "",
               deactivate_provider(registry, sender, provider_address))

WithdrawTreasury ==
    /\ registry.version = "v1"
    /\ \E sender \in Principals, amount \in WithdrawAmounts, recipient \in Principals :
          Called("withdraw-treasury", sender, recipient, "", amount, "",
                 withdraw_treasury(registry, sender, amount, recipient))

---------------------------------------------------------------------------
(* The standalone facilitator (facilitator.ts) beside the embedded one     *)
(* (server.ts).  Each /settle handler is followed from its first line to   *)
(* its response against one ledger behaviour, which fixes what the         *)
(* broadcast and every status GET come back with; the ledger calls a       *)
(* handler makes are written down in order.                                *)

\* `waitForTx(apiUrl, txId, 180000)` of server.ts
SETTLE_TIMEOUT == 180000

\* facilitator.ts: its own constants
STACKS_API_TESTNET_STANDALONE == "https://api.testnet.hiro.so"
STACKS_API_MAINNET_STANDALONE == "https://api.hiro.so"
SETTLE_TIMEOUT_STANDALONE == 180000
POLL_INTERVAL_STANDALONE == 5000
GET_TIMEOUT_STANDALONE == 5000

\* A ledger behaviour:
\*   broadcast    the answer of broadcastTransaction
\*   final        when (ms after the call of waitForTx) the transaction turns
\*                final, and with which tx_status
\*   latency      the time a GET takes
\*   throwsUntil  the first so many GETs fail
NoLedger ==
    [broadcast |-> NoBroadcastResult, final |-> NotFinal, latency |-> 0, throwsUntil |-> 0]

TwinFinalities ==
    {NotFinal}
    \cup [final : {TRUE}, at : {0, 2500, 90000, 177500, 180000},
          status : {"success", "abort_by_response"}]

LedgerBehaviours ==
    [broadcast : BroadcastResults, final : TwinFinalities, latency : Latencies,
     throwsUntil : {0, 1, 2}]

\* what GET number k, sent `elapsed` ms into the run with the given axios
\* timeout, comes back with
getAnswer(ledger, k, elapsed, timeout) ==
    IF ledger.latency >= timeout \/ k <= ledger.throwsUntil THEN "throw"
    ELSE IF ledger.final.final /\ elapsed + ledger.latency >= ledger.final.at
    THEN ledger.final.status
    ELSE "pending"

BroadcastCall(baseUrl, txid) ==
    [call |-> "broadcast", url |-> baseUrl, tx |-> txid, at |-> 0, timeout |-> 0]

GetCall(apiUrl, txId, elapsed, timeout) ==
    [call |-> "GET", url |-> apiUrl \o "/extended/v1/tx/" \o txId, tx |-> txId,
     at |-> elapsed, timeout |-> timeout]

\* what a handler did: its response, the `network` field of a settle success,
\* the ledger calls in order, the budget handed to waitForTx and what
\* waitForTx returned
Handled(resp, network, calls, budget, confirmed) ==
    [resp |-> resp, network |-> network, calls |-> calls, budget |-> budget,
     confirmed |-> confirmed]

NoHandled == Handled(NoResponse, "", <<>>, 0, FALSE)

\* `paymentRequirements.network || 'stacks:2147483648'`
settleNetworkId(reqd) ==
    IF reqd.network = "" THEN "stacks:2147483648" ELSE reqd.network

\* server.ts: waitForTx as a whole, from the loop test with `elapsed` ms gone
RECURSIVE waitForTxEmbedded(_, _, _, _, _, _)
waitForTxEmbedded(apiUrl, txId, timeoutMs, ledger, elapsed, calls) ==
    IF ~withinBudget([elapsed |-> elapsed, timeoutMs |-> timeoutMs])
    THEN [result |-> FALSE, calls |-> calls]
    ELSE LET status == getAnswer(ledger, Len(calls), elapsed, GET_TIMEOUT)
             made == Append(calls, GetCall(apiUrl, txId, elapsed, GET_TIMEOUT))
             verdict == pollOutcome(status)
         IN  IF verdict = "true" THEN [result |-> TRUE, calls |-> made]
             ELSE IF verdict = "false" THEN [result |-> FALSE, calls |-> made]
             ELSE waitForTxEmbedded(apiUrl, txId, timeoutMs, ledger,
                                    afterSleep(elapsed + ledger.latency), made)

\* server.ts: POST /settle as a whole
settleEmbedded(body, ledger) ==
    IF ~body.hasPayload \/ ~body.hasReq
    THEN Handled(SettleFailure(400, "Missing payload or requirements"), "", <<>>, 0, FALSE)
    ELSE IF ~body.hasTx
    THEN Handled(SettleFailure(400, "No transaction in payload"), "", <<>>, 0, FALSE)
    ELSE IF ~body.hex.decodable
    THEN Handled(SettleFailure(500, "deserialize error"), "", <<>>, 0, FALSE)
    ELSE LET networkId == settleNetworkId(body.reqd)
             apiUrl == settleApiUrl(body.reqd)
             tx == deserializeTransaction(body.hex)
             payer == extractPayer(tx)
             result == ledger.broadcast
             sent == <<BroadcastCall(apiUrl, tx.txid)>>
         IN  IF result.threw
             THEN Handled(SettleFailure(500, "network error"), "", sent, 0, FALSE)
             ELSE IF result.error # ""
             THEN Handled(SettleFailure(400, broadcastError(result)), "", sent, 0, FALSE)
             ELSE LET waited == waitForTxEmbedded(apiUrl, tx.txid, SETTLE_TIMEOUT,
                                                  ledger, 0, sent)
                  IN  Handled(SettleSuccess(payer, tx.txid), networkId, waited.calls,
                              SETTLE_TIMEOUT, waited.result)

\* facilitator.ts: extractPayer
extractPayerStandalone(tx) ==
    LET sc == tx.auth.spendingCondition IN
    IF sc.signer # "" THEN "ST" \o SubSeq(sc.signer, 1, 38)
    ELSE IF sc.address # "" THEN sc.address
    ELSE "unknown"

\* facilitator.ts: POST /verify
verifyStandalone(body) ==
    IF ~body.hasPayload \/ ~body.hasReq
    THEN Respond(400, "verify", FALSE, "Missing paymentPayload or paymentRequirements", "", "")
    ELSE IF ~body.hasTx
    THEN Respond(400, "verify", FALSE, "No transaction found in payload", "", "")
    ELSE IF ~body.hex.decodable
    THEN Respond(400, "verify", FALSE, "deserialize error", "", "")
    ELSE LET tx == deserializeTransaction(body.hex)
             requiredAmount == body.reqd.amount
             txAmount == tx.payload.amount
         IN  IF txAmount < requiredAmount
             THEN Respond(200, "verify", FALSE, "Insufficient", "", "")
             ELSE Respond(200, "verify", TRUE, "", extractPayerStandalone(tx), "")

\* facilitator.ts: waitForTx
RECURSIVE waitForTxStandalone(_, _, _, _, _, _)
waitForTxStandalone(apiUrl, txId, timeoutMs, ledger, elapsed, calls) ==
    IF ~(elapsed < timeoutMs)
    THEN [result |-> FALSE, calls |-> calls]
    ELSE LET status == getAnswer(ledger, Len(calls), elapsed, GET_TIMEOUT_STANDALONE)
             made == Append(calls, GetCall(apiUrl, txId, elapsed, GET_TIMEOUT_STANDALONE))
         IN  IF status = "success" THEN [result |-> TRUE, calls |-> made]
             ELSE IF status # "throw" /\ Len(status) >= 5 /\ SubSeq(status, 1, 5) = "abort"
             THEN [result |-> FALSE, calls |-> made]
             ELSE waitForTxStandalone(apiUrl, txId, timeoutMs, ledger,
                                      elapsed + ledger.latency + POLL_INTERVAL_STANDALONE,
                                      made)

\* the broadcast sent to the testnet API whatever the network
broadcastBaseUrlTestnet(isMainnet) == "https://api.testnet.hiro.so"

\* `client: { baseUrl: isMainnet ? 'https://api.hiro.so' : 'https://api.testnet.hiro.so' }`
broadcastBaseUrl(isMainnet) ==
    IF isMainnet THEN "https://api.hiro.so" ELSE "https://api.testnet.hiro.so"

\* facilitator.ts: POST /settle
settleStandalone(body, ledger) ==
    IF ~body.hasPayload \/ ~body.hasReq
    THEN Handled(Respond(400, "settle", FALSE, "Missing payload or requirements", "", ""),
                 "", <<>>, 0, FALSE)
    ELSE IF ~body.hasTx
    THEN Handled(Respond(400, "settle", FALSE, "No transaction in payload", "", ""),
                 "", <<>>, 0, FALSE)
    ELSE LET networkId == IF body.reqd.network = "" THEN "stacks:2147483648"
                          ELSE body.reqd.network
             isMainnet == networkId = "stacks:1"
             apiUrl == IF isMainnet THEN STACKS_API_MAINNET_STANDALONE
                       ELSE STACKS_API_TESTNET_STANDALONE
         IN  IF ~body.hex.decodable
             THEN Handled(Respond(500, "settle", FALSE, "deserialize error", "", ""),
                          "", <<>>, 0, FALSE)
             ELSE LET tx == deserializeTransaction(body.hex)
                      payer == extractPayerStandalone(tx)
                      result == ledger.broadcast
                      sent == <<BroadcastCall(broadcastBaseUrl(isMainnet), tx.txid)>>
                  IN  IF result.threw
                      THEN Handled(Respond(500, "settle", FALSE, "network error", "", ""),
                                   "", sent, 0, FALSE)
                      ELSE IF result.error # ""
                      THEN Handled(Respond(400, "settle", FALSE,
                                           IF result.reason # "" THEN result.reason
                                           ELSE result.error, "", ""),
                                   "", sent, 0, FALSE)
                      ELSE LET waited == waitForTxStandalone(apiUrl, tx.txid,
                                             SETTLE_TIMEOUT_STANDALONE, ledger, 0, sent)
                           IN  Handled(Respond(200, "settle", TRUE, "", payer, tx.txid),
                                       networkId, waited.calls,
                                       SETTLE_TIMEOUT_STANDALONE, waited.result)

\* bodies posted to /settle of both: the direct bodies, one without
\* paymentRequirements, one whose requirement names no network
TwinSettleBodies ==
    DirectBodies
    \cup {Body(TRUE, TRUE, TX_PROVIDER, NetworkId("testnet"), FALSE, NoRequirement, ""),
          Body(FALSE, FALSE, Garbage, "", TRUE, Requirement("whale-alerts", "testnet"), ""),
          Body(TRUE, TRUE, TX_ELSEWHERE, NetworkId("mainnet"), TRUE,
               [Requirement("btc-sentiment", "mainnet") EXCEPT !.network = ""], ""),
          Body(TRUE, TRUE, Tx(3000, PROVIDER_ADDRESS, "", "ST2ADDRESSFIELD"),
               NetworkId("mainnet"), TRUE, Requirement("btc-sentiment", "mainnet"), ""),
          Body(TRUE, TRUE, Tx(3000, PROVIDER_ADDRESS, "", ""),
               NetworkId("testnet"), TRUE, Requirement("btc-sentiment", "testnet"), "")}

\* no request put to the two facilitators yet
NoAnswers ==
    [seen |-> FALSE, endpoint |-> "", body |-> NoBody, ledger |-> NoLedger,
     embedded |-> NoHandled, standalone |-> NoHandled]

---------------------------------------------------------------------------
(* The server                                                              *)

\* the response has been sent: the request is over
Finish(i) ==
    /\ slot[i].pc = "done"
    /\ slot' = [slot EXCEPT ![i] = IdleSlot]
    /\ UNCHANGED <<wait, finalizesAt, answers, registry, receipt, agent, NETWORK, DEMO_MODE, queries, feed_stats, chain, started, prev>>

LedgerTxIds == {h.id : h \in GateHex \ {Garbage}}

NoPrev == [seen |-> FALSE, hex |-> Garbage, payer |-> "", claimed |-> ""]


(***************************************************************************)
(* The smart agent (client/smart-agent.ts).  It buys btc-sentiment, then   *)
(* decides from the answer whether to buy whale-alerts, then whether to    *)
(* buy defi-scores, and adds up what it spent in the number totalSpent.    *)
(***************************************************************************)

\* totalSpent is a JavaScript number, an IEEE 754 double: a significand m of
\* SIGNIFICAND_BITS bits, most significant first, and an exponent e, worth
\* m * 2^(e - 52).  Zero is the number 0.
SIGNIFICAND_BITS == 53

Zero == [e |-> 0, m |-> <<>>]

zeros(k) == [i \in 1..k |-> 0]

\* the carry into bit i of x + y + c (bit 0 is the bit the sum gains): a bit
\* pair below i makes a carry and every pair in between passes it on
carryInto(x, y, c, i) ==
    \/ \E j \in (i + 1)..Len(x) :
          /\ x[j] + y[j] = 2
          /\ \A k \in (i + 1)..(j - 1) : x[k] + y[k] = 1
    \/ c = 1 /\ \A k \in (i + 1)..Len(x) : x[k] + y[k] = 1

\* x + y + c for two bit strings of one length; the result is one bit longer
addBits(x, y, c) ==
    [i \in 1..(Len(x) + 1) |->
        IF i = 1 THEN (IF carryInto(x, y, c, 0) THEN 1 ELSE 0)
        ELSE (x[i - 1] + y[i - 1] + (IF carryInto(x, y, c, i - 1) THEN 1 ELSE 0)) % 2]

\* round to nearest, ties to even: kept are the bits that fit, cmp says how
\* the part that does not fit compares with half a unit of the last bit kept
roundToNearestEven(e, kept, cmp) ==
    LET up == cmp > 0 \/ (cmp = 0 /\ kept[Len(kept)] = 1)
        s == addBits(kept, zeros(Len(kept)), IF up THEN 1 ELSE 0)
    IN  IF s[1] = 1 THEN [e |-> e + 1, m |-> SubSeq(s, 1, Len(kept))]
        ELSE [e |-> e, m |-> Tail(s)]

RECURSIVE scale(_, _, _)
\* for 0 < n < d: the exponent e of n/d, and n * 2^(-e), which is in d..2d-1
scale(n, d, e) == IF n >= d THEN [n |-> n, e |-> e] ELSE scale(2 * n, d, e - 1)

RECURSIVE pow2mod(_, _)
\* 2^i modulo d, by squaring
pow2mod(i, d) ==
    IF i = 0 THEN 1 % d
    ELSE LET h == pow2mod(i \div 2, d)
         IN  (h * h * (IF i % 2 = 1 THEN 2 ELSE 1)) % d

\* what is left of r after i steps of the long division by d: r * 2^i modulo d
remainderAfter(r, d, i) == (r * pow2mod(i, d)) % d

\* the next k bits of r/d, for r < d, and the remainder after them: a step
\* doubles the remainder and takes d out of it when it fits
divideBits(r, d, k) ==
    [bits |-> [i \in 1..k |-> IF 2 * remainderAfter(r, d, i - 1) >= d THEN 1 ELSE 0],
     r |-> remainderAfter(r, d, k)]

\* the number a decimal literal n/d denotes (0.003 is toDouble(3, 1000)):
\* the double nearest to the fraction
toDouble(n, d) ==
    IF n = 0 THEN Zero
    ELSE LET s == scale(n, d, 0)
             q == divideBits(s.n - d, d, SIGNIFICAND_BITS - 1)
             cmp == IF 2 * q.r > d THEN 1 ELSE IF 2 * q.r = d THEN 0 ELSE -1
         IN  roundToNearestEven(s.e, <<1>> \o q.bits, cmp)

\* a + b of two numbers that are not negative: the exact sum, rounded
fadd(a, b) ==
    IF a = Zero THEN b
    ELSE IF b = Zero THEN a
    ELSE LET hi == IF a.e >= b.e THEN a ELSE b
             lo == IF a.e >= b.e THEN b ELSE a
             d == hi.e - lo.e
             s == addBits(hi.m \o zeros(d), zeros(d) \o lo.m, 0)
             sum == IF s[1] = 1 THEN s ELSE Tail(s)
             kept == SubSeq(sum, 1, SIGNIFICAND_BITS)
             dropped == SubSeq(sum, SIGNIFICAND_BITS + 1, Len(sum))
             cmp == IF dropped = <<>> \/ dropped[1] = 0 THEN -1
                    ELSE IF \E i \in 2..Len(dropped) : dropped[i] = 1 THEN 1
                    ELSE 0
         IN  roundToNearestEven(hi.e + s[1], kept, cmp)

\* the prices the agent adds to totalSpent, in thousandths of an STX
PRICE_DENOMINATOR == 1000
PRICE_SENTIMENT == 3
PRICE_WHALES == 5
PRICE_DEFI == 10

AgentPrice ==
    [f \in {"btc-sentiment", "whale-alerts", "defi-scores"} |->
        IF f = "btc-sentiment" THEN PRICE_SENTIMENT
        ELSE IF f = "whale-alerts" THEN PRICE_WHALES
        ELSE PRICE_DEFI]

\* let sentiment: any = null;  let whaleData: any = null
NoSentiment == [fear_greed_index |-> -1, market_trend |-> "null"]
NoWhaleData == [alerts |-> <<>>, summary |-> [total_volume_btc |-> -1]]

\* requests and bought are the history of the run: the feeds asked for with
\* api.get, in order, and the feeds whose api.get came back with the data
NoAgent ==
    [pc |-> "off", sentiment |-> NoSentiment, whaleData |-> NoWhaleData,
     totalSpent |-> Zero, requests |-> <<>>, bought |-> {}]

\* what GET /feeds/btc-sentiment can answer (feeds/btc-sentiment.ts)
SentimentResults ==
    [fear_greed_index : {10, 25, 26, 50, 74, 75, 90},
     market_trend : {"bullish", "bearish", "sideways"}]

\* what GET /feeds/whale-alerts can answer (feeds/whale-alerts.ts): an alert
\* is extreme above 3000 BTC, critical above 1000 BTC
WhaleResults ==
    { [alerts |-> <<"high">>, summary |-> [total_volume_btc |-> 800]],
      [alerts |-> <<"critical", "critical">>, summary |-> [total_volume_btc |-> 5000]],
      [alerts |-> <<"critical", "critical", "high">>, summary |-> [total_volume_btc |-> 5001]],
      [alerts |-> <<"extreme">>, summary |-> [total_volume_btc |-> 3500]],
      [alerts |-> <<"extreme", "critical">>, summary |-> [total_volume_btc |-> 6000]] }

isBearish(a) == a.sentiment.market_trend = "bearish"
isExtremeGreed(a) == a.sentiment.fear_greed_index >= 75
isExtremeFear(a) == a.sentiment.fear_greed_index <= 25

shouldCheckWhales(a) == isBearish(a) \/ isExtremeFear(a) \/ isExtremeGreed(a)

hasExtremeWhales(a) ==
    /\ a.whaleData # NoWhaleData
    /\ \E i \in 1..Len(a.whaleData.alerts) : a.whaleData.alerts[i] = "extreme"

volumeHigh(a) ==
    /\ a.whaleData # NoWhaleData
    /\ a.whaleData.summary.total_volume_btc > 5000

shouldCheckDefi(a) ==
    isExtremeFear(a) \/ hasExtremeWhales(a) \/ volumeHigh(a) \/ isExtremeGreed(a)

AgentUnchanged ==
    UNCHANGED <<NETWORK, DEMO_MODE, queries, feed_stats, chain, slot, started, prev,
                wait, finalizesAt, answers, registry, receipt>>

\* STEP 1: buy btc-sentiment; a failure ends the process
MarketSentimentAssessment ==
    /\ agent.pc = "step1"
    /\ \/ \E data \in SentimentResults :
            agent' = [agent EXCEPT
                        !.requests = Append(@, "btc-sentiment"),
                        !.bought = @ \cup {"btc-sentiment"},
                        !.totalSpent = fadd(@, toDouble(PRICE_SENTIMENT, PRICE_DENOMINATOR)),
                        !.sentiment = data,
                        !.pc = "step2"]
       \/ agent' = [agent EXCEPT
                        !.requests = Append(@, "btc-sentiment"),
                        !.pc = "exited"]
    /\ AgentUnchanged

\* STEP 2: buy whale-alerts when the market is bearish or the index extreme;
\* a failure is logged and the agent goes on without whale data
WhaleMovementAnalysis ==
    /\ agent.pc = "step2"
    /\ IF shouldCheckWhales(agent)
       THEN \/ \E data \in WhaleResults :
                 agent' = [agent EXCEPT
                             !.requests = Append(@, "whale-alerts"),
                             !.bought = @ \cup {"whale-alerts"},
                             !.totalSpent = fadd(@, toDouble(PRICE_WHALES, PRICE_DENOMINATOR)),
                             !.whaleData = data,
                             !.pc = "step3"]
            \/ agent' = [agent EXCEPT
                             !.requests = Append(@, "whale-alerts"),
                             !.pc = "step3"]
       ELSE agent' = [agent EXCEPT !.pc = "step3"]
    /\ AgentUnchanged

\* STEP 3: buy defi-scores on an extreme index or a whale signal; a failure
\* is logged
DeFiOpportunityScan ==
    /\ agent.pc = "step3"
    /\ IF shouldCheckDefi(agent)
       THEN \/ agent' = [agent EXCEPT
                             !.requests = Append(@, "defi-scores"),
                             !.bought = @ \cup {"defi-scores"},
                             !.totalSpent = fadd(@, toDouble(PRICE_DEFI, PRICE_DENOMINATOR)),
                             !.pc = "step4"]
            \/ agent' = [agent EXCEPT
                             !.requests = Append(@, "defi-scores"),
                             !.pc = "step4"]
       ELSE agent' = [agent EXCEPT !.pc = "step4"]
    /\ AgentUnchanged

\* STEP 4 and the cost analysis: no request, totalSpent is printed
InvestmentThesis ==
    /\ agent.pc = "step4"
    /\ agent' = [agent EXCEPT !.pc = "done"]
    /\ AgentUnchanged


\* db.ts on start: empty queries, one feed_stats row per known feed
Init ==
    /\ NETWORK \in {"testnet", "mainnet"}
    /\ DEMO_MODE \in BOOLEAN
    /\ queries = <<>>
    /\ feed_stats = [f \in Feeds |-> 0]
    /\ chain = [id \in LedgerTxIds |-> "none"]
    /\ slot = [i \in Slots |-> IdleSlot]
    /\ started = 0
    /\ prev = NoPrev
    /\ wait = [i \in Runs |-> IdleWait]
    /\ finalizesAt = NotFinal
    /\ answers = NoAnswers
    /\ registry = Deployed("v1", InitialBalance)
    /\ receipt = NoReceipt
    /\ agent = NoAgent

Next ==
    \/ \E i \in Slots : FeedRequest(i)
    \/ \E i \in Slots : FeedRespond(i)
    \/ \E i \in Slots : VerifyRequest(i)
    \/ \E i \in Slots : SettleRequest(i)
    \/ \E i \in Slots : SettleBroadcast(i)
    \/ \E i \in Slots : waitForTx(i)
    \/ \E i \in Slots : WalletBuyRequest(i)
    \/ \E i \in Slots : WalletBuyRespond(i)
    \/ \E i \in Slots : DemoRequest(i)
    \/ \E i \in Slots : DemoRespond(i)
    \/ \E i \in Slots : Finish(i)
    \/ LedgerFinalizes

Spec == Init /\ [][Next]_vars

---------------------------------------------------------------------------
(* The facilitator on its own: /verify and /settle called one after the    *)
(* other by remote callers, over a wide range of bodies                    *)

FacAmounts == {3000, 5000}
FacRecipients == {PROVIDER_ADDRESS, OTHER_ADDRESS}
FacNetworks == {"stacks:1", "stacks:2147483648"}
\* <<signer, address>> of the spending condition
FacAuth ==
    {<<SIGNER_A1, "">>, <<SIGNER_A2, "">>, <<SIGNER_B, "">>,
     <<"", "ST2ADDRESSFIELD">>, <<"", "">>}

FacHex ==
    {Tx(a, r, au[1], au[2]) : a \in FacAmounts, r \in FacRecipients, au \in FacAuth}
    \cup {Garbage}

FacRequirements ==
    [amount : FacAmounts, payTo : FacRecipients, network : FacNetworks]

FacVerifyBodies ==
    {Body(TRUE, TRUE, h, n, TRUE, q, c) :
        h \in FacHex, n \in FacNetworks, q \in FacRequirements, c \in ClaimedIds}
    \cup {Body(FALSE, FALSE, Garbage, "", TRUE, Requirement("whale-alerts", "testnet"), ""),
          Body(TRUE, FALSE, Garbage, NetworkId("testnet"), TRUE,
               Requirement("whale-alerts", "testnet"), ""),
          Body(TRUE, TRUE, TX_PROVIDER, NetworkId("testnet"), FALSE, NoRequirement, "")}

FacSettleBodies ==
    {[b EXCEPT !.claimed = c] :
        b \in {d \in DirectBodies : d.hex # TX_PROVIDER}, c \in ClaimedIds}

FacVerifyRequest ==
    /\ slot[1].pc = "idle"
    /\ \E body \in FacVerifyBodies :
          slot' = [slot EXCEPT ![1] =
                     [IdleSlot EXCEPT !.kind = "verify", !.body = body,
                                      !.pc = "done", !.resp = verify(body)]]
    /\ UNCHANGED <<wait, finalizesAt, answers, registry, receipt, agent, NETWORK, DEMO_MODE, queries, feed_stats, chain, started, prev>>

FacSettleRequest ==
    /\ slot[1].pc = "idle"
    /\ \E body \in FacSettleBodies :
          slot' = [slot EXCEPT ![1] =
                     [IdleSlot EXCEPT !.kind = "settle", !.body = body, !.pc = "settle"]]
    /\ UNCHANGED <<wait, finalizesAt, answers, registry, receipt, agent, NETWORK, DEMO_MODE, queries, feed_stats, chain, started, prev>>

\* The caller has its answer.  prev remembers the last answer that named a
\* payer, with the transaction and the caller-supplied identity it came with.
FacReturn ==
    LET r == slot[1] IN
    /\ r.pc = "done"
    /\ slot' = [slot EXCEPT ![1] = IdleSlot]
    /\ prev' = IF r.resp.ok
               THEN [seen |-> TRUE, hex |-> r.body.hex, payer |-> r.resp.payer,
                     claimed |-> r.body.claimed]
               ELSE prev
    /\ UNCHANGED <<wait, finalizesAt, answers, registry, receipt, agent, NETWORK, DEMO_MODE, queries, feed_stats, chain, started>>

NextFacilitator ==
    \/ FacVerifyRequest
    \/ FacSettleRequest
    \/ SettleBroadcast(1)
    \/ waitForTx(1)
    \/ LedgerFinalizes
    \/ FacReturn

\* the facilitator process reads neither NETWORK nor DEMO_MODE
InitFacilitator ==
    /\ Init
    /\ NETWORK = "testnet"
    /\ DEMO_MODE = FALSE

SpecFacilitator == InitFacilitator /\ [][NextFacilitator]_vars

---------------------------------------------------------------------------
(* Settle invocations on the clock: /settle called directly, twice at      *)
(* most, its polling followed in milliseconds                              *)

NextSettle ==
    \/ \E i \in Runs : SettleRunRequest(i)
    \/ \E i \in Runs : SettleBroadcast(i)
    \/ \E i \in Runs : waitForTxStart(i)
    \/ \E i \in Runs : waitForTxGet(i)
    \/ \E i \in Runs : waitForTxSleep(i)

InitSettle ==
    /\ NETWORK = "testnet"
    /\ DEMO_MODE = FALSE
    /\ queries = <<>>
    /\ feed_stats = [f \in Feeds |-> 0]
    /\ chain = [id \in LedgerTxIds |-> "none"]
    /\ slot = [i \in Slots |-> IdleSlot]
    /\ started = 0
    /\ prev = NoPrev
    /\ wait = [i \in Runs |-> IdleWait]
    /\ finalizesAt \in Finalities
    /\ answers = NoAnswers
    /\ registry = Deployed("v1", InitialBalance)
    /\ receipt = NoReceipt
    /\ agent = NoAgent

SpecSettle == InitSettle /\ [][NextSettle]_vars

\* Every call to the ledger returns or times out, and the event loop resumes
\* a handler whose await has resolved.
FairSettle ==
    \A i \in Runs :
        /\ WF_vars(SettleBroadcast(i))
        /\ WF_vars(waitForTxStart(i))
        /\ WF_vars(waitForTxGet(i))
        /\ WF_vars(waitForTxSleep(i))

SpecSettleLive == InitSettle /\ [][NextSettle]_vars /\ FairSettle

---------------------------------------------------------------------------
(* The registry contract, either version, called by its deployer and by    *)
(* another principal                                                       *)

NextRegistry ==
    \/ RegisterProvider
    \/ AddStake
    \/ RegisterFeed
    \/ RecordQuery
    \/ SlashProvider
    \/ DeactivateProvider
    \/ WithdrawTreasury

InitRegistry ==
    /\ NETWORK = "testnet"
    /\ DEMO_MODE = FALSE
    /\ queries = <<>>
    /\ feed_stats = [f \in Feeds |-> 0]
    /\ chain = [id \in LedgerTxIds |-> "none"]
    /\ slot = [i \in Slots |-> IdleSlot]
    /\ started = 0
    /\ prev = NoPrev
    /\ wait = [i \in Runs |-> IdleWait]
    /\ finalizesAt = NotFinal
    /\ answers = NoAnswers
    /\ registry \in {Deployed(v, InitialBalance) : v \in Versions}
                    \cup {Slashed(10), Slashed(0)}
                    \cup {Listed(v) : v \in Versions}
    /\ receipt = NoReceipt
    /\ agent = NoAgent

SpecRegistry == InitRegistry /\ [][NextRegistry]_vars

---------------------------------------------------------------------------
(* The server with failing ledger writes: recordQuery throws (better-sqlite3 *)
(* raises synchronously, e.g. SQLITE_BUSY or a full disk) in a handler that  *)
(* has generated its feed.  db.transaction rolls the INSERT and the UPDATE   *)
(* back together.                                                            *)

\* What becomes of an exception thrown in an async route handler without
\* try/catch; the repository pins neither the Express nor the Node version:
\*   "error500"     the rejection reaches the default error handler (Express 5)
\*   "no-response"  the rejection is dropped and the request is never answered
\*                  (Express 4, process kept alive)
\*   "exit"         the unhandled rejection ends the process (Express 4 on the
\*                  default --unhandled-rejections=throw of Node)
Rejections == {"error500", "no-response", "exit"}

InternalError == [NoResponse EXCEPT !.status = 500, !.kind = "error",
                                    !.reason = "Internal Server Error"]

unhandledRejection(i, how) ==
    CASE how = "error500" ->
            [slot EXCEPT ![i] = [@ EXCEPT !.pc = "done", !.resp = InternalError]]
      [] how = "no-response" ->
            [slot EXCEPT ![i] = [@ EXCEPT !.pc = "hung"]]
      [] how = "exit" ->
            [j \in Slots |-> [slot[j] EXCEPT !.pc = "exited"]]

\* a paid or demo handler: recordQuery throws, nothing catches
HandlerRejects(i) ==
    LET r == slot[i] IN
    /\ r.kind \in {"feed", "demo"}
    /\ r.pc = "generate"
    /\ \E failAt \in FailPoints, txHash \in DemoTxIds :
          LET w == IF r.kind = "feed"
                   THEN recordQuery(queries, feed_stats, r.feedId, r.payment.payer,
                                    r.payment.tx, failAt)
                   ELSE recordQuery(queries, feed_stats, r.feedId, r.senderAddress,
                                    txHash, failAt)
          IN  /\ queries' = w.rows
              /\ feed_stats' = w.stats
    /\ \E how \in Rejections : slot' = unhandledRejection(i, how)
    /\ UNCHANGED <<wait, finalizesAt, answers, registry, receipt, agent, NETWORK, DEMO_MODE,
                   chain, started, prev>>

\* /wallet/buy: generation or recordQuery throws inside the try; the catch
\* answers 500
WalletBuyFails(i) ==
    LET r == slot[i] IN
    /\ r.kind = "walletbuy"
    /\ r.pc = "generate"
    /\ \E failAt \in FailPoints \cup {"generate"} :
          LET w == IF failAt = "generate"
                   THEN [rows |-> queries, stats |-> feed_stats, threw |-> TRUE]
                   ELSE recordQuery(queries, feed_stats, r.feedId, r.senderAddress,
                                    r.txId, failAt)
          IN  /\ queries' = w.rows
              /\ feed_stats' = w.stats
    /\ slot' = [slot EXCEPT ![i] =
                  [r EXCEPT !.pc = "done",
                            !.resp = WalletError(500, "Failed to generate feed data")]]
    /\ UNCHANGED <<wait, finalizesAt, answers, registry, receipt, agent, NETWORK, DEMO_MODE,
                   chain, started, prev>>

NextFaults ==
    \/ \E i \in Slots : FeedRequest(i)
    \/ \E i \in Slots : FeedRespond(i)
    \/ \E i \in Slots : VerifyRequest(i)
    \/ \E i \in Slots : SettleRequest(i)
    \/ \E i \in Slots : SettleBroadcast(i)
    \/ \E i \in Slots : waitForTx(i)
    \/ \E i \in Slots : WalletBuyRequest(i)
    \/ \E i \in Slots : WalletBuyRespond(i)
    \/ \E i \in Slots : DemoRequest(i)
    \/ \E i \in Slots : DemoRespond(i)
    \/ \E i \in Slots : Finish(i)
    \/ LedgerFinalizes
    \/ \E i \in Slots : HandlerRejects(i)
    \/ \E i \in Slots : WalletBuyFails(i)

SpecFaults == Init /\ [][NextFaults]_vars

---------------------------------------------------------------------------
(* The two facilitators side by side                                       *)

Unanswered ==
    UNCHANGED <<wait, finalizesAt, registry, receipt, agent, NETWORK, DEMO_MODE, queries,
                feed_stats, chain, slot, started, prev>>

\* one body posted to /verify of the server and of the standalone facilitator
TwinVerify ==
    /\ ~answers.seen
    /\ \E body \in FacVerifyBodies :
          answers' = [seen |-> TRUE, endpoint |-> "verify", body |-> body,
                      ledger |-> NoLedger,
                      embedded |-> Handled(verify(body), "", <<>>, 0, FALSE),
                      standalone |-> Handled(verifyStandalone(body), "", <<>>, 0, FALSE)]
    /\ Unanswered

\* one body posted to /settle of both, the ledger behaving the same way
TwinSettle ==
    /\ ~answers.seen
    /\ \E body \in TwinSettleBodies, ledger \in LedgerBehaviours :
          answers' = [seen |-> TRUE, endpoint |-> "settle", body |-> body,
                      ledger |-> ledger,
                      embedded |-> settleEmbedded(body, ledger),
                      standalone |-> settleStandalone(body, ledger)]
    /\ Unanswered

NextTwin ==
    \/ TwinVerify
    \/ TwinSettle

SpecTwin == InitFacilitator /\ [][NextTwin]_vars

\* the smart agent run on its own: the server's answers are its inputs
InitAgent ==
    /\ NETWORK = "testnet"
    /\ DEMO_MODE = FALSE
    /\ queries = <<>>
    /\ feed_stats = [f \in Feeds |-> 0]
    /\ chain = [id \in LedgerTxIds |-> "none"]
    /\ slot = [i \in Slots |-> IdleSlot]
    /\ started = 0
    /\ prev = NoPrev
    /\ wait = [i \in Runs |-> IdleWait]
    /\ finalizesAt = NotFinal
    /\ answers = NoAnswers
    /\ registry = Deployed("v1", InitialBalance)
    /\ receipt = NoReceipt
    /\ agent = [NoAgent EXCEPT !.pc = "step1"]

NextAgent ==
    \/ MarketSentimentAssessment
    \/ WhaleMovementAnalysis
    \/ DeFiOpportunityScan
    \/ InvestmentThesis

SpecAgent == InitAgent /\ [][NextAgent]_vars

---------------------------------------------------------------------------
(* Properties                                                              *)

\* a paid route released the feed payload in the request of slot i
ReleasedIn(i) == slot[i].resp.data

\* the rows of the query ledger for one transaction identifier and feed
RowsOf(txHash, feedId) ==
    {k \in 1..Len(queries) : queries[k].tx_hash = txHash /\ queries[k].feed_id = feedId}

\* a transaction satisfies a requirement: amount, recipient and network
Satisfies(body) ==
    /\ body.hex.amount >= body.reqd.amount
    /\ body.hex.recipient = body.reqd.payTo
    /\ body.proofNet = body.reqd.network

\* C1: a request to a paid feed endpoint that carries no payment proof is
\* answered 402 with a challenge holding exactly the requirement configured for
\* that feed (5000, 3000 or 10000 microSTX, payable to the provider address on
\* the configured network); the request ends there, with no feed payload in the
\* response and no QueryRecord appended.
C1_ChallengeWithoutProof ==
    \A i \in Slots :
        LET r == slot[i] IN
        (r.kind = "feed" /\ ~r.body.hasPayload) =>
            /\ r.pc = "done"
            /\ r.resp.status = 402
            /\ r.resp.kind = "challenge"
            /\ r.resp.requirement.amount =
                  (CASE r.feedId = "whale-alerts" -> 5000
                     [] r.feedId = "btc-sentiment" -> 3000
                     [] r.feedId = "defi-scores" -> 10000)
            /\ r.resp.requirement.payTo = PROVIDER_ADDRESS
            /\ r.resp.requirement.network =
                  (IF NETWORK = "mainnet" THEN "stacks:1" ELSE "stacks:2147483648")
            /\ ~r.resp.data
            /\ r.recorded = 0

C1_Witness ==
    \E i \in Slots :
        /\ slot[i].kind = "feed"
        /\ ~slot[i].body.hasPayload
        /\ slot[i].feedId = "btc-sentiment"
        /\ slot[i].resp.kind = "challenge"
        /\ NETWORK = "mainnet"

\* C2: with DEMO_MODE off, a feed payload is released and a QueryRecord
\* appended in a request only if in that request verify answered valid and
\* settle answered success with the transaction confirmed or pending; this
\* for every release path, /wallet/buy included.
C2_ReleaseOnlyAfterVerifiedSettlement ==
    ~DEMO_MODE =>
        \A i \in Slots :
            (ReleasedIn(i) \/ slot[i].recorded > 0) =>
                /\ slot[i].verified
                /\ slot[i].payment.ok
                /\ slot[i].finality \in {"confirmed", "pending"}

\* C3: the query ledger holds at most one QueryRecord per (transaction
\* identifier, feed) pair, for the transaction identifiers of the chargeable
\* paths (not null, not demo_).
C3_OneRecordPerTxAndFeed ==
    \A a, b \in 1..Len(queries) :
        (/\ a # b
         /\ queries[a].tx_hash # Null
         /\ ~isDemo(queries[a].tx_hash)
         /\ queries[a].tx_hash = queries[b].tx_hash)
        => queries[a].feed_id # queries[b].feed_id

\* C4: when two requests whose handling overlaps submit the same proof for the
\* same feed, the ledger accepts the broadcast of both and reports no abort,
\* then once both are answered both were released with the same transaction
\* identifier and the query ledger holds exactly one QueryRecord for it.
C4_ConcurrentDuplicateProof ==
    \A i, j \in Slots :
        (/\ i # j
         /\ slot[i].kind = "feed" /\ slot[j].kind = "feed"
         /\ slot[i].pc = "done" /\ slot[j].pc = "done"
         /\ slot[i].verified /\ slot[j].verified
         /\ slot[i].transaction # "" /\ slot[j].transaction # ""
         /\ slot[i].finality # "aborted" /\ slot[j].finality # "aborted"
         /\ slot[j].overlapped
         /\ slot[i].body.hex = slot[j].body.hex
         /\ slot[i].feedId = slot[j].feedId)
        => /\ slot[i].resp.kind = "released"
           /\ slot[j].resp.kind = "released"
           /\ slot[i].resp.tx = slot[j].resp.tx
           /\ Cardinality(RowsOf(slot[i].body.hex.id, slot[i].feedId)) = 1

\* the /verify call of the facilitator has answered a body holding a decodable
\* transaction and a requirement
VerifyAnswered ==
    /\ slot[1].kind = "verify"
    /\ slot[1].pc = "done"
    /\ slot[1].body.hasPayload /\ slot[1].body.hasReq /\ slot[1].body.hasTx
    /\ slot[1].body.hex.decodable

\* C5: for a decodable proof, verify answers isValid=false with the
\* insufficient-amount reason exactly when the transaction's amount is strictly
\* below the required amount, whatever its recipient and network.
C5_InsufficientIffBelow ==
    VerifyAnswered =>
        ((~slot[1].resp.ok /\ slot[1].resp.reason = "Insufficient")
            <=> slot[1].body.hex.amount < slot[1].body.reqd.amount)

C5_Witness ==
    /\ VerifyAnswered
    /\ slot[1].body.hex.amount < slot[1].body.reqd.amount
    /\ slot[1].body.hex.recipient # slot[1].body.reqd.payTo
    /\ slot[1].body.proofNet # slot[1].body.reqd.network
    /\ slot[1].resp.reason = "Insufficient"

\* C6: for a decodable proof whose recipient differs from requirement.payTo,
\* verify never answers valid, and answers RecipientMismatch when the amount
\* suffices.
C6_RecipientMismatch ==
    (VerifyAnswered /\ slot[1].body.hex.recipient # slot[1].body.reqd.payTo) =>
        /\ ~slot[1].resp.ok
        /\ slot[1].body.hex.amount >= slot[1].body.reqd.amount
              => slot[1].resp.reason = "RecipientMismatch"

\* C7: for a decodable proof whose network differs from requirement.network,
\* verify never answers valid, and answers NetworkMismatch when amount and
\* recipient are right.
C7_NetworkMismatch ==
    (VerifyAnswered /\ slot[1].body.proofNet # slot[1].body.reqd.network) =>
        /\ ~slot[1].resp.ok
        /\ (/\ slot[1].body.hex.amount >= slot[1].body.reqd.amount
            /\ slot[1].body.hex.recipient = slot[1].body.reqd.payTo)
              => slot[1].resp.reason = "NetworkMismatch"

\* C8: settle hands a transaction to broadcastTransaction only if it satisfies
\* the requirement it came with (amount, recipient, network), also when
\* /settle is called directly.
C8_BroadcastOnlyVerified ==
    \A i \in Slots : slot[i].broadcast => Satisfies(slot[i].body)

\* C9: the payer named by verify and by settle depends on the signed
\* transaction alone: an answer for the transaction of the previous answer
\* names the same payer, whatever requirement and caller-supplied identity the
\* two calls came with.
C9_PayerFromTransactionAlone ==
    (/\ slot[1].pc = "done"
     /\ slot[1].resp.ok
     /\ prev.seen
     /\ prev.hex = slot[1].body.hex)
    => slot[1].resp.payer = prev.payer

C9_Witness ==
    /\ slot[1].pc = "done"
    /\ slot[1].kind = "settle"
    /\ slot[1].resp.ok
    /\ prev.seen
    /\ prev.hex = slot[1].body.hex
    /\ prev.claimed # slot[1].body.claimed
    /\ slot[1].resp.payer = "ST" \o SubSeq(SIGNER_B, 1, 38)

\* C10: every QueryRecord with a transaction identifier of a chargeable path
\* (not null, not demo_) names as payer the identity derived from the signer of
\* that transaction, and so does the paid_by of every such release.
C10_RecordedPayerIsSigner ==
    /\ \A k \in 1..Len(queries) :
          (queries[k].tx_hash # Null /\ ~isDemo(queries[k].tx_hash)) =>
              \E h \in GateHex \ {Garbage} :
                  /\ h.id = queries[k].tx_hash
                  /\ queries[k].payer = extractPayer(deserializeTransaction(h))
    /\ \A i \in Slots :
          (ReleasedIn(i) /\ slot[i].kind # "demo") =>
              \E h \in GateHex \ {Garbage} :
                  /\ h.id = slot[i].resp.tx
                  /\ slot[i].resp.payer = extractPayer(deserializeTransaction(h))

\* C11: a verify or settle call whose proof is missing, has no transaction
\* field or cannot be decoded answers a failure (isValid/success false, a
\* reason, a 4xx status), and settle neither broadcasts nor polls for it.
C11_MalformedProofFails ==
    \A i \in Slots :
        LET r == slot[i] IN
        (/\ r.kind \in {"verify", "settle"}
         /\ r.pc = "done"
         /\ (~r.body.hasPayload \/ ~r.body.hasTx \/ ~r.body.hex.decodable))
        => /\ ~r.resp.ok
           /\ r.resp.reason # ""
           /\ r.resp.status \in 400..499
           /\ ~r.broadcast
           /\ r.polls = 0

\* C12: the step in which /verify handles a call, valid or not, leaves the
\* query ledger (queries, feed_stats), the ledger (no broadcast, no poll) and
\* every other request as they were.
C12_VerifyChangesNoState ==
    [][\A i \in Slots :
          (slot[i].pc = "idle" /\ slot'[i].kind = "verify") =>
              /\ queries' = queries
              /\ feed_stats' = feed_stats
              /\ chain' = chain
              /\ slot'[i].broadcasts = 0
              /\ slot'[i].polls = 0
              /\ \A j \in Slots \ {i} : slot'[j] = slot[j]]_vars

C12_Witness ==
    \E i \in Slots :
        /\ slot[i].kind = "verify"
        /\ slot[i].resp.ok
        /\ Len(queries) = 1
        /\ \E id \in DOMAIN chain : chain[id] # "none"

\* C13: when the ledger rejects the broadcast, /settle answers success=false
\* with the ledger's reason (its error when it gave none), having broadcast
\* once and polled never; a gated request ends denied with no feed payload and
\* no QueryRecord.
C13_RejectedBroadcastDenied ==
    \A i \in Slots :
        LET r == slot[i] IN
        (r.broadcastResult.error # "") =>
            /\ r.pc = "done"
            /\ r.broadcasts = 1
            /\ r.polls = 0
            /\ r.finality = ""
            /\ r.recorded = 0
            /\ ~r.resp.data
            /\ r.resp.reason = (IF r.broadcastResult.reason # ""
                                THEN r.broadcastResult.reason
                                ELSE r.broadcastResult.error)
            /\ (r.kind = "settle" => (~r.resp.ok /\ r.resp.status = 400))
            /\ (r.kind = "feed" => (r.resp.kind = "denied" /\ ~r.payment.ok))

C13_Witness ==
    \E i \in Slots :
        /\ slot[i].kind = "feed"
        /\ slot[i].broadcastResult.reason = "ConflictingNonceInMempool"
        /\ slot[i].resp.kind = "denied"
        /\ queries = <<>>

\* C14: a gated request whose transaction the ledger reported aborted ends
\* denied: settle's answer is no success for the gate, no feed payload is
\* released and no QueryRecord appended.
C14_AbortDenied ==
    \A i \in Slots :
        LET r == slot[i] IN
        (r.kind = "feed" /\ r.finality = "aborted") =>
            /\ r.pc = "done"
            /\ r.resp.kind = "denied"
            /\ ~r.payment.ok
            /\ ~r.resp.data
            /\ r.recorded = 0

\* C15: after an accepted broadcast the answer of /settle tells confirmed,
\* aborted and pending apart: two answers that are equal come from runs that
\* ended in the same finality state.
C15_FinalityDistinguishable ==
    \A i, j \in Runs :
        (/\ slot[i].kind = "settle" /\ slot[j].kind = "settle"
         /\ slot[i].pc = "done" /\ slot[j].pc = "done"
         /\ slot[i].transaction # "" /\ slot[j].transaction # ""
         /\ slot[i].resp = slot[j].resp)
        => slot[i].finality = slot[j].finality

\* C16: when the timeout budget of the polling is used up after an accepted
\* broadcast, /settle answers success with the transaction identifier and the
\* payer, and a gated request is released and recorded with them.
C16_TimeoutIsSoftSuccess ==
    \A i \in Slots :
        LET r == slot[i]
            payer == extractPayer(deserializeTransaction(r.body.hex))
        IN
        (r.finality = "pending" /\ r.kind \in {"feed", "settle"}) =>
            /\ r.transaction = r.body.hex.id
            /\ (r.kind = "settle" =>
                   /\ r.pc = "done"
                   /\ r.resp.ok /\ r.resp.status = 200
                   /\ r.resp.tx = r.transaction /\ r.resp.payer = payer)
            /\ (r.kind = "feed" =>
                   /\ r.pc \in {"generate", "done"}
                   /\ r.payment.ok
                   /\ r.payment.tx = r.transaction /\ r.payment.payer = payer
                   /\ (r.pc = "done" =>
                          /\ r.resp.kind = "released" /\ r.resp.data
                          /\ r.resp.tx = r.transaction /\ r.resp.payer = payer
                          /\ r.recorded = 1
                          /\ \E k \in 1..Len(queries) :
                                /\ queries[k].tx_hash = r.transaction
                                /\ queries[k].feed_id = r.feedId
                                /\ queries[k].payer = payer))

C16_Witness ==
    \E i \in Slots :
        /\ slot[i].kind = "feed"
        /\ slot[i].pc = "done"
        /\ slot[i].finality = "pending"
        /\ slot[i].resp.kind = "released"
        /\ chain[slot[i].transaction] = "pending"
        /\ Len(queries) = 1

\* C17: for a ledger reporting success from T ms on and two runs of waitForTx
\* with timeouts T1 < T < T2 in which no GET failed, the T1 run ends pending
\* and the T2 run ends confirmed.
C17_TimeoutMonotonicity ==
    \A a, b \in Runs :
        (/\ wait[a].pc = "returned" /\ wait[b].pc = "returned"
         /\ ~wait[a].failed /\ ~wait[b].failed
         /\ finalizesAt.final /\ finalizesAt.status = "success"
         /\ wait[a].timeoutMs < finalizesAt.at
         /\ finalizesAt.at < wait[b].timeoutMs)
        => /\ ~wait[a].result /\ slot[a].finality = "pending"
           /\ wait[b].result /\ slot[b].finality = "confirmed"

\* C18: /settle does not broadcast a transaction whose identifier the query
\* ledger already holds for a transaction the ledger has accepted (pending or
\* confirmed).
C18_SettleIdempotent ==
    [][\A i \in Slots :
          (slot[i].pc = "settle" /\ slot'[i].broadcasts > slot[i].broadcasts) =>
              ~(/\ chain[slot[i].body.hex.id] \in {"pending", "success"}
                /\ \E k \in 1..Len(queries) :
                      queries[k].tx_hash = slot[i].body.hex.id)]_vars

\* C19: one settle invocation calls broadcastTransaction at most once, and a
\* broadcast that throws or is rejected ends it with a failure before any
\* poll; a GET that fails does not end it: waitForTx returns only after a GET
\* that reported success or abort, or with its timeout budget used up.
C19_BroadcastOnceAndPollsRetried ==
    \A i \in Runs :
        LET r == slot[i]
            w == wait[i]
        IN
        /\ r.broadcasts <= 1
        /\ (r.broadcastResult.threw \/ r.broadcastResult.error # "") =>
              (r.pc = "done" /\ ~r.resp.ok /\ w.pc = "idle")
        /\ (w.failed /\ w.pc # "returned") => r.pc = "poll"
        /\ (w.pc = "returned") =>
              \/ w.last = "success"
              \/ (w.last # "throw" /\ startsWithAbort(w.last))
              \/ w.elapsed >= w.timeoutMs

C19_Witness ==
    \E i \in Runs :
        /\ wait[i].failed
        /\ wait[i].pc = "returned"
        /\ wait[i].result
        /\ slot[i].broadcasts = 1

\* C20: every settle invocation is answered in the end, also when the ledger
\* never finalizes the transaction and when every GET fails.
C20_SettleResponds ==
    \A i \in Runs : (slot[i].kind = "settle") ~> (slot[i].pc = "done")

C20_Witness ==
    \E i \in Runs :
        /\ slot[i].pc = "done"
        /\ slot[i].finality = "pending"
        /\ ~finalizesAt.final
        /\ wait[i].last = "throw"
        /\ wait[i].elapsed >= wait[i].timeoutMs

\* the step is call `fn` of the registry contract
CallOf(fn) == receipt'.n = receipt.n + 1 /\ receipt'.fn = fn

\* registry and registry' differ at most in the entry of provider a, in the
\* feed k, in the STX of the holders of H and in the data-vars named by the
\* flags
SameExcept(a, k, H, treasury, providers, feeds) ==
    /\ registry'.version = registry.version
    /\ \A b \in Principals \ {a} : registry'.providers[b] = registry.providers[b]
    /\ \A j \in (Principals \X RegistryFeedIds) \ {k} : registry'.feeds[j] = registry.feeds[j]
    /\ \A h \in (Principals \cup {CONTRACT}) \ H : registry'.balance[h] = registry.balance[h]
    /\ (treasury \/ registry'.protocol_treasury = registry.protocol_treasury)
    /\ (providers \/ registry'.total_providers = registry.total_providers)
    /\ (feeds \/ registry'.total_feeds = registry.total_feeds)

Nobody == ""
NoKey == <<"", "">>

\* C26: register-provider succeeds only with a stake of at least 50 STX
\* (50000000 microSTX) from a caller not yet registered; it then moves exactly
\* the stake from the caller to the contract and creates the provider with that
\* stake, reputation 50 and is-active true.  A smaller stake gives
\* ERR_INSUFFICIENT_STAKE, a sufficient stake from a registered caller
\* ERR_ALREADY_REGISTERED, and every failure leaves the contract unchanged.
C26_RegisterProvider ==
    [][CallOf("register-provider") =>
          LET sender == receipt'.sender
              stake == receipt'.amount
              resp == receipt'.resp
          IN
          /\ (resp.kind = "ok") =>
                /\ stake >= 50000000
                /\ ~registry.providers[sender].some
                /\ registry'.balance[sender] = registry.balance[sender] - stake
                /\ registry'.balance[CONTRACT] = registry.balance[CONTRACT] + stake
                /\ registry'.providers[sender].some
                /\ registry'.providers[sender].stake = stake
                /\ registry'.providers[sender].reputation_score = 50
                /\ registry'.providers[sender].is_active
                /\ registry'.providers[sender].total_queries = 0
                /\ registry'.providers[sender].total_earned = 0
                /\ registry'.total_providers = registry.total_providers + 1
                /\ SameExcept(sender, NoKey, {sender, CONTRACT}, FALSE, TRUE, FALSE)
          /\ (stake < 50000000) => resp = Err(103)
          /\ (stake >= 50000000 /\ registry.providers[sender].some) => resp = Err(101)
          /\ (resp.kind # "ok") => registry' = registry]_vars

C26_Witness ==
    /\ receipt.fn = "register-provider"
    /\ receipt.resp.kind = "ok"
    /\ receipt.sender = ALICE
    /\ registry.providers[ALICE].stake = 70000001
    /\ registry.balance[CONTRACT] = 70000001

\* C27: register-feed succeeds only for a registered provider, a price above
\* 0 and a (provider, feed-id) pair not yet registered; otherwise it answers
\* ERR_NOT_REGISTERED, ERR_INVALID_PRICE or ERR_FEED_EXISTS and changes
\* nothing, so a feed that exists keeps its price, description and query count.
C27_RegisterFeed ==
    [][CallOf("register-feed") =>
          LET sender == receipt'.sender
              k == <<receipt'.sender, receipt'.feed_id>>
              price == receipt'.amount
              resp == receipt'.resp
          IN
          /\ (resp.kind = "ok") =>
                /\ registry.providers[sender].some
                /\ price > 0
                /\ ~registry.feeds[k].some
                /\ registry'.feeds[k].some
                /\ registry'.feeds[k].price_microstx = price
                /\ registry'.feeds[k].description = receipt'.text
                /\ registry'.feeds[k].total_queries = 0
                /\ registry'.feeds[k].is_active
                /\ registry'.total_feeds = registry.total_feeds + 1
                /\ SameExcept(Nobody, k, {}, FALSE, FALSE, TRUE)
          /\ (~registry.providers[sender].some) => resp = Err(102)
          /\ (registry.providers[sender].some /\ price = 0) => resp = Err(106)
          /\ (registry.providers[sender].some /\ price > 0 /\ registry.feeds[k].some)
                => resp = Err(104)
          /\ (resp.kind # "ok") => registry' = registry
          /\ registry.feeds[k].some => registry'.feeds[k] = registry.feeds[k]]_vars

C27_Witness ==
    /\ receipt.fn = "register-feed"
    /\ receipt.resp = Err(104)
    /\ receipt.amount = 3000
    /\ registry.feeds[<<ALICE, "whale-alerts">>].price_microstx = 5000
    /\ registry.feeds[<<ALICE, "whale-alerts">>].description = "whale moves"
    /\ registry.total_feeds = 1

\* s = floor(x * bps / 10000), said without division of the product: with
\* x = q * 10000 + r, the rest s - q * bps is floor(r * bps / 10000)
IsFloorBps(s, x, bps) ==
    LET t == s - (x \div 10000) * bps
        rb == (x % 10000) * bps
    IN  t >= 0 /\ t * 10000 <= rb /\ rb < (t + 1) * 10000

\* slash-provider by the owner on a registered provider.  overLimit says what
\* a slash-bps above 5000 may come back with.
SlashStep(overLimit(_)) ==
    CallOf("slash-provider") =>
        LET a == receipt'.target
            p == registry.providers[a]
            q == registry'.providers[a]
            bps == receipt'.amount
            resp == receipt'.resp
            owner == receipt'.sender = CONTRACT_OWNER
        IN
        /\ (resp.kind = "ok") =>
              /\ owner /\ p.some /\ bps <= 5000
              /\ IsFloorBps(resp.a, p.stake, bps)
              /\ q.stake = p.stake - resp.a
              /\ registry'.protocol_treasury = registry.protocol_treasury + resp.a
              /\ q.stake + registry'.protocol_treasury = p.stake + registry.protocol_treasury
              /\ q.reputation_score = (IF p.reputation_score >= 10
                                       THEN p.reputation_score - 10 ELSE 0)
              /\ q.reputation_score >= 0
              /\ 2 * resp.a <= p.stake
              /\ q = [p EXCEPT !.stake = q.stake, !.reputation_score = q.reputation_score]
              /\ SameExcept(a, NoKey, {}, TRUE, FALSE, FALSE)
        /\ (owner /\ p.some /\ bps <= 5000) => resp.kind = "ok"
        /\ (owner /\ p.some /\ bps > 5000) => overLimit(resp)
        /\ (resp.kind # "ok") => registry' = registry

TooHigh(resp) == resp = Err(107)
TooHighOrOverflow(resp) == resp = Err(107) \/ resp = Abort

\* C28 as stated: slash-provider by the owner with slash-bps at most 5000 on a
\* registered provider takes floor(stake * slash-bps / 10000) from the stake
\* into protocol-treasury and lowers the reputation by 10 but not below 0; with
\* slash-bps above 5000 it answers ERR_SLASH_TOO_HIGH and changes nothing.
C28_SlashAsStated == [][SlashStep(TooHigh)]_vars

\* C28: as above, except that a slash-bps above 5000 is answered with
\* ERR_SLASH_TOO_HIGH or, when stake * slash-bps leaves the uint range, with a
\* runtime error; in both cases nothing changes, so no slash takes more than
\* half of the stake.
C28_SlashProvider == [][SlashStep(TooHighOrOverflow)]_vars

C28_Witness ==
    /\ receipt.fn = "slash-provider"
    /\ receipt.resp.kind = "ok"
    /\ receipt.amount = 3333
    /\ receipt.resp.a = 11110555
    /\ registry.providers[ALICE].stake = 22224445
    /\ registry.providers[ALICE].reputation_score = 0
    /\ registry.protocol_treasury = 27775555

\* C29: in every version of the registry, a successful record-query adds
\* floor(payment-amount * 500 / 10000) to protocol-treasury, adds the rest of
\* payment-amount to the provider's total-earned, and answers the two parts,
\* which sum to payment-amount.
C29_ProtocolFee ==
    [][(CallOf("record-query") /\ receipt'.resp.kind = "ok") =>
          LET a == receipt'.sender
              amount == receipt'.amount
              fee == receipt'.resp.b
          IN
          /\ IsFloorBps(fee, amount, 500)
          /\ registry'.protocol_treasury = registry.protocol_treasury + fee
          /\ registry'.providers[a].total_earned =
                registry.providers[a].total_earned + (amount - fee)
          /\ receipt'.resp.a + fee = amount]_vars

\* C30: slash-provider, deactivate-provider and withdraw-treasury called by a
\* principal other than the deployer fail and leave every map entry, data-var
\* and STX balance as it was, whatever the arguments.
C30_AdminOnly ==
    [][(/\ receipt'.n = receipt.n + 1
        /\ receipt'.fn \in {"slash-provider", "deactivate-provider", "withdraw-treasury"}
        /\ receipt'.sender # CONTRACT_OWNER)
       => (receipt'.resp.kind # "ok" /\ registry' = registry)]_vars

C30_Witness ==
    /\ receipt.fn = "deactivate-provider"
    /\ receipt.sender = ALICE
    /\ receipt.target = ALICE
    /\ receipt.resp = Err(100)
    /\ registry.providers[ALICE].some
    /\ registry.providers[ALICE].is_active

\* C21: the query ledger is append-only.  No step of the server changes a
\* field of a record that exists or deletes it, and getQueryById of an id
\* that exists returns after the step what it returned before.
C21_LedgerAppendOnly ==
    [][/\ Len(queries') >= Len(queries)
       /\ \A k \in 1..Len(queries) :
             /\ queries'[k] = queries[k]
             /\ getQueryById(queries', queries[k].id) = queries[k]]_vars

C21_Witness ==
    /\ Len(queries) = 2
    /\ getQueryById(queries, 1).feed_id = "whale-alerts"
    /\ getQueryById(queries, 2).feed_id = "defi-scores"
    /\ getQueryById(queries, 1).tx_hash # getQueryById(queries, 2).tx_hash

\* request i answers with the feed payload in this step
Releases(i) == ~slot[i].resp.data /\ slot'[i].resp.data

\* Releases and records, one to one: a step in which a request releases the
\* payload appends exactly one record, the only one of that request, whose
\* feed and payer are those of the response and whose transaction identifier
\* is related to the tx of the response by txMatches; and the ledger grows in
\* no other step.
ReleaseRecordsOne(txMatches(_, _, _)) ==
    /\ \A i \in Slots :
          Releases(i) =>
             /\ Len(queries') = Len(queries) + 1
             /\ slot'[i].recorded = 1
             /\ LET q == queries'[Len(queries')]
                    resp == slot'[i].resp
                IN  /\ q.feed_id = resp.feed
                    /\ q.payer = resp.payer
                    /\ txMatches(slot'[i].kind, q.tx_hash, resp.tx)
    /\ Len(queries') # Len(queries) =>
          /\ Len(queries') = Len(queries) + 1
          /\ \E i \in Slots : Releases(i)

TxEqual(kind, txHash, tx) == txHash = tx

\* a demo response carries no tx (`demo: true` instead); its record holds the
\* generated demo_ identifier
TxEqualUnlessDemo(kind, txHash, tx) ==
    IF kind = "demo" THEN tx = "" /\ isDemo(txHash) ELSE txHash = tx

ChargeableRecords(i) ==
    /\ slot'[i].kind \in {"feed", "walletbuy"}
    /\ slot'[i].recorded = slot[i].recorded + 1

\* C23: every record written by a paid /feeds/* handler or by /wallet/buy has
\* a transaction identifier that is neither null nor demo_-prefixed; such an
\* identifier is written only by the demo endpoints, hence only under
\* DEMO_MODE.
C23_ChargeableTxIds ==
    [][/\ \A i \in Slots :
             ChargeableRecords(i) =>
                LET q == queries'[Len(queries')]
                IN  q.tx_hash # Null /\ ~isDemo(q.tx_hash)
       /\ (/\ Len(queries') > Len(queries)
           /\ LET q == queries'[Len(queries')]
              IN  q.tx_hash = Null \/ isDemo(q.tx_hash))
          => DEMO_MODE]_vars

\* C24: no failure is fatal to the process.  A request whose handling raises
\* an error ends with an error response and nothing else: the process keeps
\* running, every request is answered, the other requests in flight are left
\* as they were, and the ledger holds no partial record (a row without its
\* feed_stats increment, or the reverse).
C24_NoFailureFatal ==
    /\ \A i \in Slots : slot[i].pc \notin {"exited", "hung"}
    /\ \A f \in Feeds :
          feed_stats[f] = Cardinality({k \in 1..Len(queries) : queries[k].feed_id = f})

\* the part of C24 that holds: a failure of the ledger write leaves no
\* partial record
C24_NoPartialRecord ==
    \A f \in Feeds :
        feed_stats[f] = Cardinality({k \in 1..Len(queries) : queries[k].feed_id = f})

\* C25: the standalone facilitator and the embedded one are equivalent.  For
\* every /verify and /settle body and every ledger behaviour both answer with
\* the same status and fields and make the same ledger calls in the same
\* order: one broadcast, then the same status GETs against the API of the same
\* network, with the same budget of 180000 ms.
C25_FacilitatorsEquivalent ==
    answers.seen =>
        /\ answers.standalone = answers.embedded
        /\ answers.endpoint = "settle" /\ answers.embedded.resp.ok =>
              /\ answers.embedded.budget = 180000
              /\ answers.embedded.calls[1].call = "broadcast"
              /\ \A k \in 2..Len(answers.embedded.calls) :
                    /\ answers.embedded.calls[k].call = "GET"
                    /\ answers.embedded.calls[k].url =
                          settleApiUrl(answers.body.reqd) \o "/extended/v1/tx/"
                             \o answers.body.hex.id

C25_Witness ==
    /\ answers.seen
    /\ answers.endpoint = "settle"
    /\ answers.body.reqd.network = "stacks:1"
    /\ answers.embedded.resp.ok
    /\ answers.standalone.resp.ok
    /\ ~answers.standalone.confirmed
    /\ Len(answers.standalone.calls) = 37
    /\ answers.standalone.calls[1].url = STACKS_API_MAINNET
    /\ answers.standalone.calls[37].at = 175000
    /\ answers.ledger.final.at = 177500

\* the entries of the two maps
ProviderEntries == {a \in Principals : registry.providers[a].some}
FeedEntries == {k \in Principals \X RegistryFeedIds : registry.feeds[k].some}

RECURSIVE SumOver(_, _)
SumOver(f, S) ==
    IF S = {} THEN 0
    ELSE LET x == CHOOSE y \in S : TRUE IN f[x] + SumOver(f, S \ {x})

\* C34: registry v1, in every reachable state the STX held by the contract
\* equal the sum of the stakes of all providers plus protocol-treasury, so the
\* treasury never exceeds the funds behind it.
C34_ContractBalanceBacksStakes ==
    registry.version = "v1" =>
        registry.balance[CONTRACT] =
            SumOver([a \in Principals |-> registry.providers[a].stake], ProviderEntries)
            + registry.protocol_treasury

\* the consequence C34 draws: the STX of the contract cover the recorded
\* stakes, so withdraw-treasury pays out nothing that backs a stake
C34_StakesCovered ==
    registry.version = "v1" =>
        registry.balance[CONTRACT] >=
            SumOver([a \in Principals |-> registry.providers[a].stake], ProviderEntries)

\* C35: after any sequence of calls total-providers is the number of entries
\* of the providers map and total-feeds the number of entries of the feeds
\* map, and no call lowers either counter.
C35_CountersMatchMaps ==
    [][/\ registry'.total_providers =
             Cardinality({a \in Principals : registry'.providers[a].some})
       /\ registry'.total_feeds =
             Cardinality({k \in Principals \X RegistryFeedIds : registry'.feeds[k].some})
       /\ registry'.total_providers >= registry.total_providers
       /\ registry'.total_feeds >= registry.total_feeds
       /\ registry.total_providers = Cardinality(ProviderEntries)
       /\ registry.total_feeds = Cardinality(FeedEntries)]_vars

C35_Witness ==
    /\ receipt.n = 3
    /\ receipt.resp.kind = "err"
    /\ registry.total_providers = 2
    /\ Cardinality(ProviderEntries) = 2
    /\ registry.total_feeds = 2
    /\ Cardinality(FeedEntries) = 2

\* C36: in every reachable state the total-queries of a provider is the sum
\* of the total-queries of the feeds that provider registered; a record-query
\* that fails changes neither.
C36_QueryCountsConsistent ==
    /\ \A a \in Principals :
          registry.providers[a].total_queries =
             SumOver([k \in Principals \X RegistryFeedIds |-> registry.feeds[k].total_queries],
                     {k \in FeedEntries : k[1] = a})
    /\ (receipt.fn = "record-query" /\ receipt.resp.kind # "ok") =>
          \/ ~registry.providers[receipt.sender].some
          \/ ~registry.feeds[<<receipt.sender, receipt.feed_id>>].some
          \/ receipt.resp = Abort

C36_Witness ==
    /\ receipt.fn = "record-query"
    /\ receipt.resp.kind = "ok"
    /\ registry.providers[ALICE].total_queries = 3
    /\ registry.feeds[<<ALICE, "whale-alerts">>].total_queries = 2
    /\ registry.feeds[<<ALICE, "btc-sentiment">>].total_queries = 1

\* C37: deactivation is permanent and only the owner causes it.  A provider
\* is active when registered; is-active turns false only in a successful
\* deactivate-provider on that provider called by the deployer; and once
\* false no call sets it back to true or removes the entry.
C37_DeactivationPermanent ==
    [][\A a \in Principals :
          LET p == registry.providers[a]
              q == registry'.providers[a]
          IN  /\ (~p.some /\ q.some) => q.is_active
              /\ (p.some /\ ~p.is_active) => (q.some /\ ~q.is_active)
              /\ (p.some /\ p.is_active /\ ~q.is_active) =>
                    /\ q.some
                    /\ receipt'.fn = "deactivate-provider"
                    /\ receipt'.sender = CONTRACT_OWNER
                    /\ receipt'.target = a
                    /\ receipt'.resp.kind = "ok"]_vars

C37_Witness ==
    /\ receipt.n = 3
    /\ receipt.fn = "add-stake"
    /\ receipt.sender = ALICE
    /\ receipt.resp.kind = "ok"
    /\ registry.providers[ALICE].stake = MIN_STAKE + 1000000
    /\ ~registry.providers[ALICE].is_active

\* C32: after any sequence of recordQuery calls from empty tables, the
\* total_queries of each of the three known feeds is the number of rows of
\* queries with that feed_id; a recordQuery that raises leaves neither the row
\* nor the increment, so no reader sees one without the other.
C32_StatsMatchRows ==
    /\ \A f \in {"whale-alerts", "btc-sentiment", "defi-scores"} :
          feed_stats[f] = Cardinality({k \in 1..Len(queries) : queries[k].feed_id = f})
    /\ feed_stats["whale-alerts"] + feed_stats["btc-sentiment"] + feed_stats["defi-scores"]
          = Len(queries)

C32_Witness ==
    /\ Len(queries) = 1
    /\ feed_stats[queries[1].feed_id] = 1
    /\ \E i \in Slots :
          /\ slot[i].kind = "walletbuy"
          /\ slot[i].resp.status = 500
          /\ slot[i].feedId = queries[1].feed_id

\* the body of a /wallet/buy request lacks a field or names an unknown feed
WalletBodyRejected(r) ==
    \/ r.feedId = "" \/ r.txId = "" \/ r.senderAddress = ""
    \/ r.feedId \notin {"whale-alerts", "btc-sentiment", "defi-scores"}

\* C33: POST /wallet/buy with a missing feedId, txId or senderAddress, or with
\* a feedId outside the three feeds, answers 400 at once: no feed is
\* generated and no record appended.  When generation or recording throws it
\* answers 500 without the payload.  (A step that ends the whole process is
\* none of this handler.)
C33_WalletBuyErrors ==
    [][\A i \in Slots :
          /\ (slot[i].pc = "idle" /\ slot'[i].kind = "walletbuy" /\ WalletBodyRejected(slot'[i]))
                => /\ slot'[i].pc = "done"
                   /\ slot'[i].resp.status = 400
                   /\ ~slot'[i].resp.data
                   /\ queries' = queries
                   /\ feed_stats' = feed_stats
          /\ (slot[i].kind = "walletbuy" /\ slot[i].pc = "generate")
                => /\ ~WalletBodyRejected(slot[i])
                   /\ (slot'[i] # slot[i] /\ slot'[i].recorded = 0
                          /\ slot'[i].pc # "exited")
                         => /\ slot'[i].pc = "done"
                            /\ slot'[i].resp.status = 500
                            /\ ~slot'[i].resp.data
                            /\ queries' = queries]_vars

C33_Witness ==
    \E i, j \in Slots :
        /\ slot[i].kind = "walletbuy" /\ slot[i].feedId = "nft-floor"
        /\ slot[i].txId # "" /\ slot[i].senderAddress # ""
        /\ slot[i].resp.status = 400
        /\ slot[j].kind = "walletbuy" /\ slot[j].resp.status = 500
        /\ queries = <<>>

(***************************************************************************)
(* The smart agent.                                                        *)
(***************************************************************************)

Requested(f) == \E i \in 1..Len(agent.requests) : agent.requests[i] = f

FeedRank == [f \in DOMAIN AgentPrice |->
                IF f = "btc-sentiment" THEN 1 ELSE IF f = "whale-alerts" THEN 2 ELSE 3]

\* the feeds are asked for in the order btc-sentiment, whale-alerts, defi-scores
RequestsInOrder ==
    \A i, j \in 1..Len(agent.requests) :
        i < j => FeedRank[agent.requests[i]] < FeedRank[agent.requests[j]]

IndexExtreme ==
    agent.sentiment.fear_greed_index <= 25 \/ agent.sentiment.fear_greed_index >= 75

WhaleSignal ==
    /\ "whale-alerts" \in agent.bought
    /\ \/ \E i \in 1..Len(agent.whaleData.alerts) : agent.whaleData.alerts[i] = "extreme"
       \/ agent.whaleData.summary.total_volume_btc > 5000

\* the number the sum of the prices of the feeds bought denotes
SumOfPrices == toDouble(SumOver(AgentPrice, agent.bought), PRICE_DENOMINATOR)

\* C31, the requests: the agent asks for feeds only in the order btc-sentiment,
\* whale-alerts, defi-scores; for whale-alerts only if the sentiment is
\* bearish or the Fear & Greed index is at most 25 or at least 75; for
\* defi-scores only if the index is at most 25 or at least 75 or the whale
\* data it bought has an extreme alert or more than 5000 BTC of volume; and
\* when the purchase of btc-sentiment fails it exits having asked for nothing
\* else.
C31_RequestsAsStated ==
    /\ RequestsInOrder
    /\ Requested("whale-alerts") =>
          /\ "btc-sentiment" \in agent.bought
          /\ agent.sentiment.market_trend = "bearish" \/ IndexExtreme
    /\ Requested("defi-scores") =>
          /\ "btc-sentiment" \in agent.bought
          /\ IndexExtreme \/ WhaleSignal
    /\ (Requested("btc-sentiment") /\ "btc-sentiment" \notin agent.bought) =>
          /\ agent.pc = "exited"
          /\ agent.requests = <<"btc-sentiment">>

\* a run in which the whale data alone, 3500 BTC in one extreme alert under a
\* moderate index of a bearish market, made the agent ask for defi-scores
C31_RequestsWitness ==
    /\ agent.pc = "done"
    /\ agent.requests = <<"btc-sentiment", "whale-alerts", "defi-scores">>
    /\ agent.sentiment.fear_greed_index = 50
    /\ agent.whaleData.summary.total_volume_btc = 3500

\* C31: the smart agent purchase protocol: the requests are as stated above,
\* and totalSpent equals the sum of the prices of the feeds whose purchase
\* succeeded.
C31_SmartAgentProtocol ==
    /\ C31_RequestsAsStated
    /\ agent.totalSpent = SumOfPrices

\* C31, the part of the total that holds: totalSpent is the sum of the
\* prices as long as defi-scores is not among the feeds bought.
C31_TotalWithoutDefi ==
    "defi-scores" \notin agent.bought => agent.totalSpent = SumOfPrices

\* the agent has bought all three feeds and prints its total
C31_TotalWitness ==
    /\ agent.pc = "done"
    /\ agent.bought = {"btc-sentiment", "whale-alerts", "defi-scores"}
    /\ agent.totalSpent # SumOfPrices
====
